---- MODULE Spec2Model ----
(***************************************************************************)
(* Model of the streaming event pipeline of shadow-container-app           *)
(* (src/app/main.py): one request served by event_stream, i.e. the         *)
(* background task stream_processor, the intermediate-message callback,    *)
(* the per-request asyncio.Queue, the consumer loop that yields frames to  *)
(* the transport, and the process-wide token ledger.                       *)
(*                                                                         *)
(* Granularity: asyncio is cooperative, so one action is the code a        *)
(* coroutine runs between two real suspension points.  asyncio.Queue() is  *)
(* unbounded, so `await event_queue.put(x)` never suspends.  The task      *)
(* suspends in get_agent (assistants.retrieve), on each awaited fragment   *)
(* of agent.invoke_stream and on runs.list; the consumer suspends on       *)
(* event_queue.get(), at `yield event` and on `await task`.                *)
(* task.cancel() makes the task's next step raise CancelledError at the    *)
(* await it is suspended on; CancelledError is a BaseException, so neither *)
(* `except Exception` of stream_processor or get_agent catches it.         *)
(***************************************************************************)
EXTENDS Integers, Sequences, FiniteSets, TLC

VARIABLES
    threadId,            \* request.threadId ("" when the request supplies none)
    pc,                  \* where stream_processor is suspended
    must_cancel,         \* task.cancel() was called and not yet delivered
    outcome,             \* how stream_processor left its try block
    agent,               \* what get_agent returned: "pending", "none" or "ok"
    invoked,             \* agent.invoke_stream(...) has been called
    actual_thread_id,    \* local of stream_processor
    is_new_thread,       \* local of stream_processor
    first_chunk,         \* local of stream_processor
    fragLog,             \* the fragments the backend has yielded so far
    nMsgs,               \* number of intermediate messages handed to the callback
    excMsg,              \* message of the exception the backend raised ("" if none)
    event_queue,         \* the asyncio.Queue of the request
    enqueued,            \* every item ever put on event_queue, in put order
    delivered,           \* the frames event_stream has yielded to the transport
    cpc,                 \* where the consumer loop of event_stream is suspended
    cexit,               \* how the consumer loop was left
    escaped,             \* the exception that left event_stream ("none" if none)
    recancelled,         \* the consumer was cancelled again while awaiting the task
    thread_token_usage,  \* global dict: conversation id -> usage record
    thread_last_access,  \* global dict: conversation id -> last access time
    now,                 \* time.time()
    ledger0,             \* thread_token_usage as it was when the run started
    last_touch,          \* per id: the time of the last call that read or wrote its entry
    observed,            \* per id: the sum of the usage recorded since its last deletion
    lastOp,              \* the last call on the ledger, with what it returned
    nOps,                \* number of calls on the ledger so far
    reqs,                \* two concurrent requests: per request its task's state
    plug,                \* one call of a retrieval plugin function
    iso,                 \* two concurrent requests: their queues, tasks and consumers
    api                  \* one request of the direct-yield event_stream of api.py

taskVars   == <<pc, must_cancel, outcome, agent, invoked, actual_thread_id, is_new_thread,
                first_chunk, fragLog, nMsgs, excMsg>>
queueVars  == <<event_queue, enqueued>>
consVars   == <<delivered, cpc, cexit, escaped, recancelled>>
ledgerVars == <<thread_token_usage, thread_last_access, now>>
auxVars    == <<ledger0, last_touch, observed, lastOp, nOps, reqs, plug, iso, api>>
vars == <<threadId, taskVars, queueVars, consVars, ledgerVars, auxVars>>

(***************************************************************************)
(* Bounds of the model.                                                    *)
(***************************************************************************)
\* fragments plus intermediate messages the backend produces in one stream
MaxEvents == 2
\* Calls on the ledger in one run of LedgerSpec.
MaxOps == 3

(***************************************************************************)
(* Values.                                                                 *)
(***************************************************************************)
Ids == {"t1", "t2"}                 \* conversation ids the backend can assign
NoThread == "NoThread"              \* a fragment with no (or a falsy) .thread
Unknown == "Unknown"                \* the 'Unknown' sentinel of thread_info
AgentName == "ShadowInsightsAgent"  \* response.name

\* Text is modelled as a sequence of characters so that str.strip() is computed.
Blank == {" ", "\n"}
Texts == {<<" ">>, <<"a">>}

\* Python values handed to the callback: a JSON primitive or an arbitrary object.
StrValue == [t |-> "str", v |-> "q"]
ObjValue == [t |-> "object", v |-> "<obj>"]

\* The items of an intermediate message (semantic_kernel content classes).
CallItem   == [cls |-> "FunctionCallContent", name |-> "get_sales_docs", arguments |-> StrValue]
ResultItem == [cls |-> "FunctionResultContent", name |-> "get_sales_docs", result |-> ObjValue]
OtherItem  == [cls |-> "TextContent", repr |-> "text"]
\* A container names the types of its elements: a list holding an arbitrary object.
ObjList == [t |-> "list", v |-> "[<obj>]", elems |-> {"object"}]
ListResultItem == [cls |-> "FunctionResultContent", name |-> "get_sales_docs", result |-> ObjList]
Messages == {<<>>, <<CallItem, ResultItem>>, <<OtherItem>>, <<CallItem, ListResultItem, OtherItem>>}
\* What str(e) is for the TypeError of json.dumps.
JsonTypeError == [type |-> "TypeError", msg |-> "Object of type object is not JSON serializable"]

\* The usage a fragment reports, <<>> for none: here the fragments with
\* visible text report the usage of their generation step.
FragmentUsage(c) ==
    IF c = <<"a">>
    THEN <<[prompt_tokens |-> <<2>>, completion_tokens |-> <<1>>, total_tokens |-> <<3>>]>>
    ELSE <<>>

\* A fragment of agent.invoke_stream: .thread (an id, or NoThread), .content,
\* .usage.
Fragments ==
    {[thread |-> th, has_content |-> TRUE, content |-> c, usage |-> FragmentUsage(c)] :
        th \in Ids \cup {NoThread}, c \in Texts}
        \cup {[thread |-> th, has_content |-> FALSE, content |-> <<>>, usage |-> <<>>] :
                 th \in Ids \cup {NoThread}}

\* Exceptions the backend can raise while the fragment sequence is driven.
Exceptions == {[type |-> "HTTPException", msg |-> "bad gateway"],
               [type |-> "Exception", msg |-> "boom"]}

\* A token count attribute: <<>> is None, <<n>> is the integer n.
Tok(n) == <<n>>
NoneTok == <<>>
RunUsages == {[prompt_tokens |-> Tok(0), completion_tokens |-> Tok(0), total_tokens |-> Tok(0)],
              [prompt_tokens |-> Tok(2), completion_tokens |-> Tok(1), total_tokens |-> Tok(3)],
              [prompt_tokens |-> NoneTok, completion_tokens |-> NoneTok, total_tokens |-> NoneTok]}
\* What `await agent.client.beta.threads.runs.list(...)` can do: raise, return no
\* run, or return a latest run whose .usage is None (<<>>) or a usage object.
RunsListResults ==
    {[kind |-> "raise", usage |-> <<>>], [kind |-> "empty", usage |-> <<>>],
     [kind |-> "run", usage |-> <<>>]}
        \cup {[kind |-> "run", usage |-> <<u>>] : u \in RunUsages}
\* A field of a usage object that is no number (a non-empty str): it is truthy,
\* so `... or 0` keeps it, and `>` and `+=` with an int raise TypeError.
BadTok == <<0, 0>>
IsBad(tok) == Len(tok) = 2
MalformedUsages ==
    {[prompt_tokens |-> Tok(2), completion_tokens |-> Tok(1), total_tokens |-> BadTok],
     [prompt_tokens |-> BadTok, completion_tokens |-> Tok(1), total_tokens |-> Tok(3)],
     [prompt_tokens |-> Tok(2), completion_tokens |-> BadTok, total_tokens |-> Tok(3)]}
\* A latest run whose usage object is malformed.
MalformedRunsListResults == {[kind |-> "run", usage |-> <<u>>] : u \in MalformedUsages}

ZeroUsage == [input_tokens |-> 0, output_tokens |-> 0, total_tokens |-> 0]
NoneItem == [sentinel |-> "None"]      \* the closing None put on the queue
EmptyDict == [k \in {} |-> ZeroUsage]
NoTimes == [k \in {} |-> 0]
NoReqs == <<>>
NoPlug == [pc |-> "none"]
NoIso == <<>>
NoApi == [pc |-> "none"]
NoOp == [op |-> "none", id |-> "", ret |-> ZeroUsage, before |-> EmptyDict, threads |-> EmptyDict]

(***************************************************************************)
(* Pure helpers of event_stream.                                           *)
(***************************************************************************)
\* str.strip(): drop leading and trailing whitespace.
RECURSIVE LStrip(_)
LStrip(s) == IF s = <<>> THEN s ELSE IF Head(s) \in Blank THEN LStrip(Tail(s)) ELSE s
RECURSIVE RStrip(_)
RStrip(s) ==
    IF s = <<>> THEN s
    ELSE IF s[Len(s)] \in Blank THEN RStrip(SubSeq(s, 1, Len(s) - 1)) ELSE s
strip(s) == RStrip(LStrip(s))

\* safe_serialize: JSON primitives and containers pass, anything else is str(data).
safe_serialize(data) ==
    IF data.t \in {"str", "int", "float", "bool", "list", "dict", "NoneType"}
    THEN data
    ELSE [t |-> "str", v |-> data.v]

\* format_sse_event: the frame "event: <type>\ndata: <json>\n\n", kept as its two parts.
format_sse_event(event_type, event_data) == [event |-> event_type, data |-> event_data]

IsFrame(x) == "event" \in DOMAIN x
IsTerminal(x) == IsFrame(x) /\ x.event \in {"stream_complete", "error"}
FramesOf(q) == SelectSeq(q, IsFrame)

\* The frame handle_intermediate_message builds for one item of a message.
ItemFrame(item) ==
    IF item.cls = "FunctionCallContent"
    THEN format_sse_event("function_call",
            [type |-> "function_call", function_name |-> item.name,
             arguments |-> safe_serialize(item.arguments)])
    ELSE IF item.cls = "FunctionResultContent"
    THEN format_sse_event("function_result",
            [type |-> "function_result", function_name |-> item.name,
             result |-> safe_serialize(item.result)])
    ELSE format_sse_event("intermediate",
            [type |-> "intermediate", content |-> item.repr])

\* json.dumps in format_sse_event takes JSON primitives and containers of them;
\* any other value, at the top or as an element, makes it raise TypeError.
JsonPrimitives == {"str", "int", "float", "bool", "NoneType"}
json_dumps_ok(data) ==
    \/ data.t \in JsonPrimitives
    \/ data.t \in {"list", "dict"} /\ data.elems \subseteq JsonPrimitives

\* Building the frame of this item raises.
ItemRaises(item) ==
    \/ item.cls = "FunctionCallContent" /\ ~json_dumps_ok(safe_serialize(item.arguments))
    \/ item.cls = "FunctionResultContent" /\ ~json_dumps_ok(safe_serialize(item.result))

\* Index of the first item whose frame cannot be built; Len + 1 if there is none.
FirstRaising(message) ==
    IF \E i \in 1..Len(message) : ItemRaises(message[i])
    THEN CHOOSE i \in 1..Len(message) :
            ItemRaises(message[i]) /\ \A j \in 1..(i - 1) : ~ItemRaises(message[j])
    ELSE Len(message) + 1

\* handle_intermediate_message: one frame per item, in item order, up to the
\* item at which it raises.
handle_intermediate_message(message) ==
    [i \in 1..(FirstRaising(message) - 1) |-> ItemFrame(message[i])]

ErrorFrame(text) == format_sse_event("error", [type |-> "error", error |-> text])
CompleteFrame == format_sse_event("stream_complete", [type |-> "stream_complete"])

\* Variant: the handler reports a fixed text instead of the exception's message.
ExceptFrames_Generic(e) == <<ErrorFrame("Internal error")>>

\* Variant: the handler reports the error and the completion marker as well.
ExceptFrames_AlsoComplete(e) == <<ErrorFrame(e.msg), CompleteFrame>>

\* The except clauses of stream_processor: exc.detail for an HTTPException,
\* str(e) for any other Exception.
ExceptFrames(e) == <<ErrorFrame(e.msg)>>

\* `if not agent:` branch of stream_processor.
AgentFailedFrames == <<ErrorFrame("Failed to initialize agent")>>

\* actual_thread_id after the first statement of the loop body.
ThreadIdAfter(f, tid) == IF f.thread # NoThread THEN f.thread ELSE tid

\* Variant: the reset is repeated for every fragment of a request that came
\* without an id.
ResetDue_EveryFragment(isnew, tid) == threadId = "" /\ tid # ""

\* `if is_new_thread and actual_thread_id:` in the loop body.
\* Variant: the reset is also made when a fragment carries another id than the
\* request's.
ResetDue_OnOtherId(isnew, tid) == tid # "" /\ (isnew \/ tid # threadId)

ResetDue(isnew, tid) == isnew /\ tid # ""

\* Variant: the reset zeroes the entry and keeps it.
reset_thread_tokens_Zero(ttu, thread_id) ==
    [k \in DOMAIN ttu |-> IF k = thread_id THEN ZeroUsage ELSE ttu[k]]

\* Variant: the reset leaves the entry in place.
reset_thread_tokens_Noop(ttu, thread_id) == ttu

\* reset_thread_tokens
reset_thread_tokens(ttu, thread_id) ==
    [k \in DOMAIN ttu \ {thread_id} |-> ttu[k]]

\* The frames the loop body of stream_processor puts for one fragment.
ThreadInfoFrame(tid) ==
    format_sse_event("thread_info",
        [type |-> "thread_info", agent_name |-> AgentName,
         thread_id |-> IF tid # "" THEN tid ELSE Unknown])
ContentFrame(text) == format_sse_event("content", [type |-> "content", content |-> text])
\* Variant: the content frame of the first fragment is put before thread_info.
ChunkFrames_ContentFirst(first, tid, f) ==
    (IF f.has_content /\ strip(f.content) # <<>> THEN <<ContentFrame(f.content)>> ELSE <<>>)
        \o (IF first THEN <<ThreadInfoFrame(tid)>> ELSE <<>>)
\* Variant: thread_info is put on the first pass only when an id is known.
ChunkFrames_InfoIfKnown(first, tid, f) ==
    (IF first /\ tid # "" THEN <<ThreadInfoFrame(tid)>> ELSE <<>>)
        \o (IF f.has_content /\ strip(f.content) # <<>> THEN <<ContentFrame(f.content)>> ELSE <<>>)
\* Variant: thread_info waits for a fragment that carries text.
ChunkFrames_Delayed(first, tid, f) ==
    IF f.has_content /\ strip(f.content) # <<>>
    THEN (IF first THEN <<ThreadInfoFrame(tid)>> ELSE <<>>) \o <<ContentFrame(f.content)>>
    ELSE <<>>
\* The frames one pass of the loop body puts: thread_info on the first pass,
\* then the content frame.
ChunkFrames(first, tid, f) ==
    (IF first THEN <<ThreadInfoFrame(tid)>> ELSE <<>>)
        \o (IF f.has_content /\ strip(f.content) # <<>> THEN <<ContentFrame(f.content)>> ELSE <<>>)

\* `getattr(usage, name, 0) or 0`
OrZero(tok) == IF tok = <<>> THEN 0 ELSE tok[1]

\* The usage record of a run as the post-stream block counts it.
UsageOfRun(u) ==
    [input_tokens |-> OrZero(u.prompt_tokens), output_tokens |-> OrZero(u.completion_tokens),
     total_tokens |-> OrZero(u.total_tokens)]

\* Post-stream accumulation of the latest run's usage into the ledger, inside
\* `try: ... except Exception`.  A TypeError at `total_tokens > 0` or at one of
\* the three `+=` ends the block there: what was assigned before it stays.
AccumulateRun(ttu, tid, r) ==
    IF /\ r.kind = "run" /\ r.usage # <<>>
       /\ ~IsBad(r.usage[1].total_tokens) /\ OrZero(r.usage[1].total_tokens) > 0
    THEN LET u == r.usage[1]
             old == IF tid \in DOMAIN ttu THEN ttu[tid] ELSE ZeroUsage
         IN [k \in DOMAIN ttu \cup {tid} |->
                IF k # tid THEN ttu[k]
                ELSE IF IsBad(u.prompt_tokens) THEN old
                ELSE IF IsBad(u.completion_tokens)
                THEN [old EXCEPT !.input_tokens = @ + OrZero(u.prompt_tokens)]
                ELSE [input_tokens  |-> old.input_tokens + OrZero(u.prompt_tokens),
                      output_tokens |-> old.output_tokens + OrZero(u.completion_tokens),
                      total_tokens  |-> old.total_tokens + OrZero(u.total_tokens)]]
    ELSE ttu

\* What the post-stream block records for the lookup's result r: nothing
\* unless the run has a usage whose total is a positive number, and then the
\* fields added before the first `+=` that raises TypeError.
RecordedRun(r) ==
    IF r.kind # "run" \/ r.usage = <<>> THEN ZeroUsage
    ELSE LET u == r.usage[1]
         IN IF IsBad(u.total_tokens) \/ OrZero(u.total_tokens) <= 0 THEN ZeroUsage
            ELSE IF IsBad(u.prompt_tokens) THEN ZeroUsage
            ELSE IF IsBad(u.completion_tokens)
            THEN [input_tokens |-> OrZero(u.prompt_tokens), output_tokens |-> 0,
                  total_tokens |-> 0]
            ELSE UsageOfRun(u)

\* Variant: only what this request added is reported.
FinalTokenUsage_OwnOnly(ttu, tid) ==
    IF tid \in DOMAIN ttu /\ tid \in DOMAIN ledger0
    THEN [input_tokens |-> ttu[tid].input_tokens - ledger0[tid].input_tokens,
          output_tokens |-> ttu[tid].output_tokens - ledger0[tid].output_tokens,
          total_tokens |-> ttu[tid].total_tokens - ledger0[tid].total_tokens]
    ELSE IF tid \in DOMAIN ttu THEN ttu[tid] ELSE ZeroUsage

\* thread_token_usage.get(actual_thread_id, {zero record})
FinalTokenUsage(ttu, tid) == IF tid \in DOMAIN ttu THEN ttu[tid] ELSE ZeroUsage

\* Variant: the usage report is put whatever the total is.
FinalFrames_AlwaysUsage(ttu, tid) ==
    <<format_sse_event("token_usage",
          [type |-> "token_usage", thread_id |-> tid,
           token_usage |-> FinalTokenUsage(ttu, tid)]),
      CompleteFrame>>

\* Variant: the completion marker is put before the usage report.
FinalFrames_UsageLast(ttu, tid) ==
    <<CompleteFrame>>
        \o (IF FinalTokenUsage(ttu, tid).total_tokens > 0
            THEN <<format_sse_event("token_usage",
                       [type |-> "token_usage", thread_id |-> tid,
                        token_usage |-> FinalTokenUsage(ttu, tid)])>>
            ELSE <<>>)

\* The frames put after the fragment sequence has ended: token_usage, stream_complete.
FinalFrames(ttu, tid) ==
    (IF FinalTokenUsage(ttu, tid).total_tokens > 0
     THEN <<format_sse_event("token_usage",
                [type |-> "token_usage", thread_id |-> tid,
                 token_usage |-> FinalTokenUsage(ttu, tid)])>>
     ELSE <<>>)
        \o <<CompleteFrame>>

\* Variant: the task is taken to be done whenever the loop is left.
TaskDone_Always(p) == TRUE

\* task.done()
TaskDone(p) == p = "done"

\* Variant: the queue hands out its newest item.
QueueGet_Newest(q) == q[Len(q)]

\* event_queue.get(): the oldest item.
QueueGet(q) == Head(q)

(***************************************************************************)
(* Initial state: event_stream has created the queue and the task and is   *)
(* suspended on its first event_queue.get(); the task has not run yet.     *)
(***************************************************************************)
InitLedgers == {EmptyDict, [k \in {"t1"} |-> [input_tokens |-> 4, output_tokens |-> 2, total_tokens |-> 6]]}

InitWith(ids, ledgers) ==
    /\ threadId \in ids
    /\ pc = "created"
    /\ must_cancel = FALSE
    /\ outcome = "running"
    /\ agent = "pending"
    /\ invoked = FALSE
    /\ actual_thread_id = ""
    /\ is_new_thread = FALSE
    /\ first_chunk = TRUE
    /\ fragLog = <<>>
    /\ nMsgs = 0
    /\ excMsg = ""
    /\ event_queue = <<>>
    /\ enqueued = <<>>
    /\ delivered = <<>>
    /\ cpc = "get"
    /\ cexit = "none"
    /\ escaped = "none"
    /\ recancelled = FALSE
    /\ thread_token_usage \in ledgers
    /\ thread_last_access = [k \in DOMAIN thread_token_usage |-> 0]
    /\ now = 0
    /\ ledger0 = thread_token_usage
    /\ last_touch = NoTimes
    /\ observed = EmptyDict
    /\ lastOp = NoOp
    /\ nOps = 0
    /\ reqs = NoReqs
    /\ plug = NoPlug
    /\ iso = NoIso
    /\ api = NoApi

\* The request carries no id or the id t1; the ledger is empty or holds t1.
Init == InitWith({"", "t1"}, InitLedgers)

\* The request may also carry t2, an id other than the one the ledger holds.
IdInit == InitWith({"", "t1", "t2"}, InitLedgers \ {EmptyDict})

(***************************************************************************)
(* The background task stream_processor.                                   *)
(***************************************************************************)
\* Variant: a put replaces what waits on the queue.
Put_Replacing(items) ==
    /\ event_queue' = IF items = <<>> THEN event_queue ELSE items
    /\ enqueued' = enqueued \o items

\* await event_queue.put(...), for one item after the other.
Put(items) ==
    /\ event_queue' = event_queue \o items
    /\ enqueued' = enqueued \o items

\* Variant: the task ends without putting the closing None.
Finish_NoSentinel(frames, how) ==
    /\ Put(frames)
    /\ pc' = "done"
    /\ outcome' = how

\* Leaving the try block: the finally clause puts None and the task is done.
Finish(frames, how) ==
    /\ Put(frames \o <<NoneItem>>)
    /\ pc' = "done"
    /\ outcome' = how

\* First step of the task: get_agent either fails before its first await
\* (plugin or client construction raises, get_agent returns None) or suspends
\* on assistants.retrieve.
TaskStart ==
    /\ pc = "created"
    /\ \/ /\ Finish(AgentFailedFrames, "agent_failed")
          /\ agent' = "none"
          /\ UNCHANGED <<must_cancel, invoked, actual_thread_id, is_new_thread,
                         first_chunk, fragLog, nMsgs, excMsg>>
       \/ /\ pc' = "get_agent"
          /\ UNCHANGED <<must_cancel, outcome, agent, invoked, actual_thread_id, is_new_thread,
                         first_chunk, fragLog, nMsgs, excMsg, queueVars>>
    /\ UNCHANGED <<threadId, consVars, ledgerVars, auxVars>>

\* Variant: the `return` after the error frame is missing.
AgentFailed_NoReturn ==
    /\ pc = "get_agent" /\ ~must_cancel
    /\ Put(AgentFailedFrames)
    /\ agent' = "none"
    /\ pc' = "invoke_stream"
    /\ invoked' = TRUE
    /\ actual_thread_id' = threadId
    /\ is_new_thread' = (threadId = "")
    /\ first_chunk' = TRUE
    /\ UNCHANGED <<must_cancel, outcome, fragLog, nMsgs, excMsg>>
    /\ UNCHANGED <<threadId, consVars, ledgerVars, auxVars>>

\* assistants.retrieve raised (get_agent returns None): error frame, return.
AgentFailed ==
    /\ pc = "get_agent" /\ ~must_cancel
    /\ Finish(AgentFailedFrames, "agent_failed")
    /\ agent' = "none"
    /\ UNCHANGED <<must_cancel, invoked, actual_thread_id, is_new_thread,
                   first_chunk, fragLog, nMsgs, excMsg>>
    /\ UNCHANGED <<threadId, consVars, ledgerVars, auxVars>>

\* get_agent returned an agent: locals are set, invoke_stream is called and the
\* task suspends on the first fragment.
AgentReady ==
    /\ pc = "get_agent" /\ ~must_cancel
    /\ pc' = "invoke_stream"
    /\ agent' = "ok"
    /\ invoked' = TRUE
    /\ actual_thread_id' = threadId
    /\ is_new_thread' = (threadId = "")
    /\ first_chunk' = TRUE
    /\ UNCHANGED <<must_cancel, outcome, fragLog, nMsgs, excMsg>>
    /\ UNCHANGED <<threadId, queueVars, consVars, ledgerVars, auxVars>>

\* The backend hands an intermediate message to the callback.
Intermediate(message) ==
    /\ pc = "invoke_stream" /\ ~must_cancel
    /\ Len(fragLog) + nMsgs < MaxEvents
    /\ FirstRaising(message) > Len(message)
    /\ nMsgs' = nMsgs + 1
    /\ Put(handle_intermediate_message(message))
    /\ UNCHANGED <<pc, must_cancel, outcome, agent, invoked, actual_thread_id, is_new_thread,
                   first_chunk, fragLog, excMsg>>
    /\ UNCHANGED <<threadId, consVars, ledgerVars, auxVars>>

\* The callback raises while it builds a frame: the frames of the items before
\* are on the queue, the TypeError leaves the callback and the backend's
\* generator and reaches `except Exception` of stream_processor.
IntermediateRaises(message) ==
    /\ pc = "invoke_stream" /\ ~must_cancel
    /\ Len(fragLog) + nMsgs < MaxEvents
    /\ FirstRaising(message) <= Len(message)
    /\ nMsgs' = nMsgs + 1
    /\ Finish(handle_intermediate_message(message) \o ExceptFrames(JsonTypeError),
              "callback_raised")
    /\ excMsg' = JsonTypeError.msg
    /\ UNCHANGED <<must_cancel, agent, invoked, actual_thread_id, is_new_thread,
                   first_chunk, fragLog>>
    /\ UNCHANGED <<threadId, consVars, ledgerVars, auxVars>>

\* The backend yields a fragment: one pass of the loop body.
Fragment(f) ==
    /\ pc = "invoke_stream" /\ ~must_cancel
    /\ Len(fragLog) + nMsgs < MaxEvents
    /\ LET tid == ThreadIdAfter(f, actual_thread_id)
           reset == ResetDue(is_new_thread, tid)
       IN /\ actual_thread_id' = tid
          /\ is_new_thread' = IF reset THEN FALSE ELSE is_new_thread
          /\ thread_token_usage' =
                IF reset THEN reset_thread_tokens(thread_token_usage, tid)
                ELSE thread_token_usage
          /\ Put(ChunkFrames(first_chunk, tid, f))
    /\ first_chunk' = FALSE
    /\ fragLog' = Append(fragLog, f)
    /\ UNCHANGED <<pc, must_cancel, outcome, agent, invoked, nMsgs, excMsg>>
    /\ UNCHANGED <<threadId, consVars, thread_last_access, now, auxVars>>

\* The backend raises while the fragment sequence is driven.
\* Variant: the usage of the run so far is recorded when the backend raises.
BackendRaises_Recording(e) ==
    /\ pc = "invoke_stream" /\ ~must_cancel
    /\ Finish(ExceptFrames(e), "raised")
    /\ excMsg' = e.msg
    /\ thread_token_usage' =
          AccumulateRun(thread_token_usage, "t1",
                        [kind |-> "run", usage |-> <<[prompt_tokens |-> Tok(2),
                            completion_tokens |-> Tok(1), total_tokens |-> Tok(3)]>>])
    /\ UNCHANGED <<must_cancel, agent, invoked, actual_thread_id, is_new_thread,
                   first_chunk, fragLog, nMsgs>>
    /\ UNCHANGED <<threadId, consVars, thread_last_access, now, auxVars>>

BackendRaises(e) ==
    /\ pc = "invoke_stream" /\ ~must_cancel
    /\ Finish(ExceptFrames(e), "raised")
    /\ excMsg' = e.msg
    /\ UNCHANGED <<must_cancel, agent, invoked, actual_thread_id, is_new_thread,
                   first_chunk, fragLog, nMsgs>>
    /\ UNCHANGED <<threadId, consVars, ledgerVars, auxVars>>

\* The fragment sequence ends and a conversation id is known: the task
\* suspends on runs.list.
StreamEndKnown ==
    /\ pc = "invoke_stream" /\ ~must_cancel
    /\ actual_thread_id # ""
    /\ pc' = "runs_list"
    /\ UNCHANGED <<must_cancel, outcome, agent, invoked, actual_thread_id, is_new_thread,
                   first_chunk, fragLog, nMsgs, excMsg>>
    /\ UNCHANGED <<threadId, queueVars, consVars, ledgerVars, auxVars>>

\* The fragment sequence ends and no conversation id is known: the run lookup
\* is skipped and the final frames are put at once.
StreamEndUnknown ==
    /\ pc = "invoke_stream" /\ ~must_cancel
    /\ actual_thread_id = ""
    /\ Finish(FinalFrames(thread_token_usage, actual_thread_id), "completed")
    /\ UNCHANGED <<must_cancel, agent, invoked, actual_thread_id, is_new_thread,
                   first_chunk, fragLog, nMsgs, excMsg>>
    /\ UNCHANGED <<threadId, consVars, ledgerVars, auxVars>>

\* runs.list returns or raises: accumulation, token_usage, stream_complete.
RunsListDone(r) ==
    /\ pc = "runs_list" /\ ~must_cancel
    /\ thread_token_usage' = AccumulateRun(thread_token_usage, actual_thread_id, r)
    /\ Finish(FinalFrames(thread_token_usage', actual_thread_id), "completed")
    /\ UNCHANGED <<must_cancel, agent, invoked, actual_thread_id, is_new_thread,
                   first_chunk, fragLog, nMsgs, excMsg>>
    /\ UNCHANGED <<threadId, consVars, thread_last_access, now, auxVars>>

\* Variant: the CancelledError is swallowed at the await and the task goes on.
TaskCancelled_Swallowed ==
    /\ pc \in {"get_agent", "invoke_stream", "runs_list"} /\ must_cancel
    /\ must_cancel' = FALSE
    /\ UNCHANGED <<pc, outcome, agent, invoked, actual_thread_id, is_new_thread,
                   first_chunk, fragLog, nMsgs, excMsg>>
    /\ UNCHANGED <<threadId, queueVars, consVars, ledgerVars, auxVars>>

\* Variant: the CancelledError is caught like any exception and reported.
TaskCancelled_AsError ==
    /\ pc \in {"get_agent", "invoke_stream", "runs_list"} /\ must_cancel
    /\ Finish(<<ErrorFrame("")>>, "cancelled")
    /\ must_cancel' = FALSE
    /\ UNCHANGED <<agent, invoked, actual_thread_id, is_new_thread,
                   first_chunk, fragLog, nMsgs, excMsg>>
    /\ UNCHANGED <<threadId, consVars, ledgerVars, auxVars>>

\* The pending cancellation is delivered: CancelledError is raised at the await
\* the task is suspended on, passes both except clauses, the finally clause
\* puts None and the task ends cancelled.
TaskCancelled ==
    /\ pc \in {"get_agent", "invoke_stream", "runs_list"} /\ must_cancel
    /\ Finish(<<>>, "cancelled")
    /\ must_cancel' = FALSE
    /\ UNCHANGED <<agent, invoked, actual_thread_id, is_new_thread,
                   first_chunk, fragLog, nMsgs, excMsg>>
    /\ UNCHANGED <<threadId, consVars, ledgerVars, auxVars>>

(***************************************************************************)
(* The consumer loop of event_stream.                                      *)
(***************************************************************************)
\* What `await task` raises in the finally clause: the CancelledError of a task
\* that ended cancelled; a task that ended otherwise returns None.
AwaitTaskRaises(how) == IF how = "cancelled" THEN "task.CancelledError" ELSE "none"

\* Variant: the except clause around `await task` is missing.
CaughtByTeardown_Nothing(exc) == FALSE

\* `except asyncio.CancelledError: pass`
CaughtByTeardown(exc) == exc = "task.CancelledError"

\* The exception in flight when the try block of event_stream was left; it goes
\* on after the finally clause.  The loop left by `break` raises nothing, the
\* GeneratorExit of aclose() ends in aclose(), the consumer's own CancelledError
\* goes on to its caller.
ExitException(how) == IF how = "cancelled" THEN "CancelledError" ELSE "none"

\* The finally clause of event_stream.
Finally(how) ==
    /\ cexit' = how
    /\ UNCHANGED recancelled
    /\ IF ~TaskDone(pc)
       THEN /\ must_cancel' = TRUE      \* task.cancel(); await task
            /\ cpc' = "await_task"
            /\ UNCHANGED escaped
       ELSE /\ cpc' = "returned"
            /\ escaped' = ExitException(how)
            /\ UNCHANGED must_cancel

\* event_queue.get() returns an item: None ends the loop, a frame is yielded.
ConsumerGet ==
    /\ cpc = "get" /\ event_queue # <<>>
    /\ event_queue' = Tail(event_queue)
    /\ IF QueueGet(event_queue) = NoneItem
       THEN /\ Finally("sentinel")
            /\ UNCHANGED delivered
       ELSE /\ delivered' = Append(delivered, QueueGet(event_queue))
            /\ cpc' = "yield"
            /\ UNCHANGED <<cexit, must_cancel, escaped, recancelled>>
    /\ UNCHANGED <<threadId, pc, outcome, agent, invoked, actual_thread_id, is_new_thread,
                   first_chunk, fragLog, nMsgs, excMsg, enqueued, ledgerVars, auxVars>>

\* The transport asks for the next frame.
ConsumerResume ==
    /\ cpc = "yield"
    /\ cpc' = "get"
    /\ UNCHANGED <<threadId, taskVars, queueVars, delivered, cexit, escaped, recancelled,
                   ledgerVars, auxVars>>

\* The transport abandons the generator at `yield` (aclose, GeneratorExit).
ConsumerClose ==
    /\ cpc = "yield"
    /\ Finally("closed")
    /\ UNCHANGED <<threadId, pc, outcome, agent, invoked, actual_thread_id, is_new_thread,
                   first_chunk, fragLog, nMsgs, excMsg, queueVars, delivered, ledgerVars, auxVars>>

\* The consumer is cancelled while it waits on event_queue.get().  The task's
\* first step was scheduled by create_task before the consumer suspended, so it
\* has run by the time the cancellation is delivered.
ConsumerCancelled ==
    /\ cpc = "get" /\ pc # "created"
    /\ Finally("cancelled")
    /\ UNCHANGED <<threadId, pc, outcome, agent, invoked, actual_thread_id, is_new_thread,
                   first_chunk, fragLog, nMsgs, excMsg, queueVars, delivered, ledgerVars, auxVars>>

\* The consumer is cancelled again while it awaits the task in the finally
\* clause: asyncio passes the cancellation on to the awaited task (task.cancel()
\* once more, without effect on a task that is done) and the consumer keeps
\* waiting until the task is done.
ConsumerRecancelled ==
    /\ cpc = "await_task" /\ ~recancelled
    /\ recancelled' = TRUE
    /\ must_cancel' = IF ~TaskDone(pc) THEN TRUE ELSE must_cancel
    /\ UNCHANGED <<threadId, pc, outcome, agent, invoked, actual_thread_id, is_new_thread,
                   first_chunk, fragLog, nMsgs, excMsg, queueVars, delivered, cpc, cexit,
                   escaped, ledgerVars, auxVars>>

\* `await task` returns, or raises the task's CancelledError, which the except
\* clause passes over; event_stream is left.
ConsumerJoin ==
    /\ cpc = "await_task" /\ TaskDone(pc)
    /\ cpc' = "returned"
    /\ escaped' =
          IF AwaitTaskRaises(outcome) # "none" /\ ~CaughtByTeardown(AwaitTaskRaises(outcome))
          THEN AwaitTaskRaises(outcome)
          ELSE ExitException(cexit)
    /\ UNCHANGED <<threadId, taskVars, queueVars, delivered, cexit, recancelled,
                   ledgerVars, auxVars>>

Next ==
    \/ TaskStart
    \/ AgentFailed
    \/ AgentReady
    \/ \E m \in Messages : Intermediate(m)
    \/ \E m \in Messages : IntermediateRaises(m)
    \/ \E f \in Fragments : Fragment(f)
    \/ \E e \in Exceptions : BackendRaises(e)
    \/ StreamEndKnown
    \/ StreamEndUnknown
    \/ \E r \in RunsListResults : RunsListDone(r)
    \/ TaskCancelled
    \/ ConsumerGet
    \/ ConsumerResume
    \/ ConsumerClose
    \/ ConsumerCancelled
    \/ ConsumerRecancelled
    \/ ConsumerJoin

Spec == Init /\ [][Next]_vars

\* The event loop runs every task that is ready: a task whose cancellation is
\* pending is stepped, which raises CancelledError in it.
FairSpec == Spec /\ WF_vars(TaskCancelled)

\* One request, over the ids a request can carry.
IdSpec == IdInit /\ [][Next]_vars

\* The event loop also steps the consumer whenever an item waits on the queue
\* and when the awaited task is done, the transport asks for the next frame
\* after each frame it was given, and the awaited runs.list returns or raises.
LiveSpec ==
    /\ Spec
    /\ WF_vars(TaskCancelled)
    /\ WF_vars(ConsumerGet) /\ WF_vars(ConsumerResume) /\ WF_vars(ConsumerJoin)
    /\ WF_vars(\E r \in RunsListResults : RunsListDone(r))

(***************************************************************************)
(* The usage ledger by itself: the module-level functions of main.py       *)
(* called one after the other while the clock advances.                    *)
(***************************************************************************)
MAX_THREAD_AGE_HOURS == 24

\* Ids handed to the ledger functions; the empty id is the falsy thread_id.
LIds == {"", "t1", "t2"}

\* Usage as a response reports it.  A key or attribute that is there holds a
\* number or None (a JSON null); a key or attribute may also be missing, and
\* the record then has no such field.
U(p, c, t) == [prompt_tokens |-> Tok(p), completion_tokens |-> Tok(c), total_tokens |-> Tok(t)]
LUsages == {U(100, 50, 150), U(75, 125, 200), U(90, 80, 170), U(0, 0, 0),
            [total_tokens |-> Tok(3)],
            [prompt_tokens |-> NoneTok, completion_tokens |-> NoneTok, total_tokens |-> Tok(3)],
            [prompt_tokens |-> Tok(2), completion_tokens |-> NoneTok, total_tokens |-> Tok(3)],
            [prompt_tokens |-> Tok(2), completion_tokens |-> Tok(1), total_tokens |-> NoneTok],
            [prompt_tokens |-> NoneTok, completion_tokens |-> NoneTok,
             total_tokens |-> NoneTok]}

\* A response as extract_and_accumulate_tokens sees it: the 'usage' dict of
\* model_dump_json(), the .usage attribute, metadata['usage']; <<>> when the
\* response has none (or a falsy one), <<u>> otherwise.
NoSource == <<>>
MkResponse(kind, u) ==
    [dump |-> IF kind = "dump" THEN <<u>> ELSE NoSource,
     attr |-> IF kind = "attr" THEN <<u>> ELSE NoSource,
     meta |-> IF kind = "meta" THEN <<u>> ELSE NoSource]
SourceKinds == {"dump", "attr", "meta"}

\* usage.get(key, 0), getattr(response.usage, key, 0): the default 0 stands in
\* for a missing key only; a None that is there is what the call gives.
Get(u, key) == IF key \in DOMAIN u THEN u[key] ELSE Tok(0)

\* current_usage as one source fills it.
FieldsOf(u) ==
    [input_tokens |-> Get(u, "prompt_tokens"), output_tokens |-> Get(u, "completion_tokens"),
     total_tokens |-> Get(u, "total_tokens")]

\* current_usage as line 137 sets it.
ZeroCurrent == [input_tokens |-> Tok(0), output_tokens |-> Tok(0), total_tokens |-> Tok(0)]

\* current_usage after the three extraction steps.  The second and third
\* step are `if ... elif ...`: metadata is consulted only when .usage is
\* missing or falsy.  A None total makes the `> 0` of a step raise TypeError,
\* which the enclosing `except Exception` takes after the fields were
\* assigned, and `None == 0` is false: a None total of the serialized usage
\* keeps the other two sources from being read.
ExtractUsage(response) ==
    LET s1 == IF response.dump # NoSource THEN FieldsOf(response.dump[1]) ELSE ZeroCurrent
    IN IF s1.total_tokens = Tok(0) /\ response.attr # NoSource
       THEN FieldsOf(response.attr[1])
       ELSE IF s1.total_tokens = Tok(0) /\ response.meta # NoSource
            THEN FieldsOf(response.meta[1])
            ELSE s1

\* `if thread_id not in thread_token_usage: thread_token_usage[thread_id] = {zero}`
EnsureEntry(ttu, thread_id) ==
    [k \in DOMAIN ttu \cup {thread_id} |-> IF k \in DOMAIN ttu THEN ttu[k] ELSE ZeroUsage]

\* Variant: the entry is overwritten with the current usage.
AddUsage_Overwrite(ttu, thread_id, cur) ==
    [ttu EXCEPT ![thread_id] =
        [input_tokens  |-> OrZero(cur.input_tokens),
         output_tokens |-> OrZero(cur.output_tokens),
         total_tokens  |-> OrZero(cur.total_tokens)]]

\* The three `+=` on the entry of thread_id, which stand outside every try:
\* `+= None` raises TypeError and what was added before it stays.
AddUsage(ttu, thread_id, cur) ==
    IF cur.input_tokens = NoneTok
    THEN ttu
    ELSE IF cur.output_tokens = NoneTok
    THEN [ttu EXCEPT ![thread_id].input_tokens = @ + cur.input_tokens[1]]
    ELSE [ttu EXCEPT ![thread_id] =
            [input_tokens  |-> @.input_tokens + cur.input_tokens[1],
             output_tokens |-> @.output_tokens + cur.output_tokens[1],
             total_tokens  |-> @.total_tokens + cur.total_tokens[1]]]

\* Variant: the empty id is treated like any other id.
extract_and_accumulate_tokens_NoGuard(ttu, response, thread_id) ==
    LET cur == ExtractUsage(response)
    IN IF cur.total_tokens # NoneTok /\ cur.total_tokens[1] > 0
       THEN AddUsage(EnsureEntry(ttu, thread_id), thread_id, cur)
       ELSE EnsureEntry(ttu, thread_id)

\* thread_token_usage after extract_and_accumulate_tokens(response, thread_id),
\* whether the call returns or raises: `None > 0` at line 184 raises before
\* anything is added.
extract_and_accumulate_tokens(ttu, response, thread_id) ==
    IF thread_id = ""
    THEN ttu
    ELSE LET cur == ExtractUsage(response)
         IN IF cur.total_tokens # NoneTok /\ cur.total_tokens[1] > 0
            THEN AddUsage(EnsureEntry(ttu, thread_id), thread_id, cur)
            ELSE EnsureEntry(ttu, thread_id)

\* Whether extract_and_accumulate_tokens(response, thread_id) raises TypeError
\* instead of returning: at the comparison of line 184, or at a `+=`.
AccumulateRaises(response, thread_id) ==
    /\ thread_id # ""
    /\ LET cur == ExtractUsage(response)
       IN \/ cur.total_tokens = NoneTok
          \/ /\ cur.total_tokens[1] > 0
             /\ (cur.input_tokens = NoneTok \/ cur.output_tokens = NoneTok)

\* What extract_and_accumulate_tokens returns, ttu being the ledger it leaves.
AccumulateReturns(ttu, thread_id) == IF thread_id = "" THEN ZeroUsage ELSE ttu[thread_id]

\* What a call with current_usage cur records in the entry: nothing unless the
\* total is a positive number, and then the fields up to the first None.
Recorded(cur) ==
    IF cur.total_tokens = NoneTok \/ cur.input_tokens = NoneTok THEN ZeroUsage
    ELSE IF cur.total_tokens[1] <= 0 THEN ZeroUsage
    ELSE IF cur.output_tokens = NoneTok
    THEN [input_tokens |-> cur.input_tokens[1], output_tokens |-> 0, total_tokens |-> 0]
    ELSE [input_tokens |-> cur.input_tokens[1], output_tokens |-> cur.output_tokens[1],
          total_tokens |-> cur.total_tokens[1]]

\* What get_thread_token_usage returns, and thread_last_access after it.
get_thread_token_usage(ttu, thread_id) ==
    IF thread_id # "" /\ thread_id \in DOMAIN ttu THEN ttu[thread_id] ELSE ZeroUsage
Touch(tla, thread_id, t) ==
    IF thread_id = "" THEN tla
    ELSE [k \in DOMAIN tla \cup {thread_id} |-> IF k = thread_id THEN t ELSE tla[k]]

\* cleanup_old_threads: the ids it removes, and the two maps after it.
threads_to_remove(tla, t) == {k \in DOMAIN tla : tla[k] < t - MAX_THREAD_AGE_HOURS * 3600}
cleanup_usage(ttu, tla, t) == [k \in DOMAIN ttu \ threads_to_remove(tla, t) |-> ttu[k]]
cleanup_access(tla, t) == [k \in DOMAIN tla \ threads_to_remove(tla, t) |-> tla[k]]

\* get_all_thread_stats
\* Variant: the grand total sums the input counters.
get_all_thread_stats_InputSum(ttu) ==
    LET RECURSIVE SumInputs(_)
        SumInputs(S) == IF S = {} THEN 0
                        ELSE LET k == CHOOSE x \in S : TRUE
                             IN ttu[k].input_tokens + SumInputs(S \ {k})
    IN [total_threads |-> Cardinality(DOMAIN ttu),
        total_tokens_across_all_threads |-> SumInputs(DOMAIN ttu),
        threads |-> ttu]

\* get_all_thread_stats()
get_all_thread_stats(ttu) ==
    LET RECURSIVE SumTotals(_)
        SumTotals(S) == IF S = {} THEN 0
                        ELSE LET k == CHOOSE x \in S : TRUE
                             IN ttu[k].total_tokens + SumTotals(S \ {k})
    IN [total_threads |-> Cardinality(DOMAIN ttu),
        total_tokens_across_all_threads |-> SumTotals(DOMAIN ttu),
        threads |-> ttu]

\* Hours by which the clock advances between two calls.
TickHours == {1, 24, 25}

\* Bookkeeping of the ledger runs: the record of a map (zero if absent), a map
\* with one record more, a map without some ids.
RecordIn(f, k) == IF k \in DOMAIN f THEN f[k] ELSE ZeroUsage
WithAdded(f, k, a) ==
    [j \in DOMAIN f \cup {k} |->
        IF j = k
        THEN [input_tokens  |-> RecordIn(f, k).input_tokens + a.input_tokens,
              output_tokens |-> RecordIn(f, k).output_tokens + a.output_tokens,
              total_tokens  |-> RecordIn(f, k).total_tokens + a.total_tokens]
        ELSE f[j]]
Without(f, S) == [j \in DOMAIN f \ S |-> f[j]]
Stamp(f, k, t) == [j \in DOMAIN f \cup {k} |-> IF j = k THEN t ELSE f[j]]

\* The request side stands still in the ledger runs.
RequestIdle ==
    /\ threadId = "" /\ pc = "created" /\ must_cancel = FALSE /\ outcome = "running"
    /\ agent = "pending" /\ invoked = FALSE /\ actual_thread_id = ""
    /\ is_new_thread = FALSE /\ first_chunk = TRUE /\ fragLog = <<>> /\ nMsgs = 0
    /\ excMsg = "" /\ event_queue = <<>> /\ enqueued = <<>> /\ delivered = <<>>
    /\ cpc = "get" /\ cexit = "none" /\ escaped = "none" /\ recancelled = FALSE
requestVars == <<threadId, taskVars, queueVars, consVars, ledger0, reqs, plug, iso, api>>

\* The ledger is empty, or holds an entry that was made and then read with
\* get_thread_token_usage at time 0.
LInit ==
    /\ RequestIdle
    /\ thread_token_usage \in InitLedgers
    /\ thread_last_access = [k \in DOMAIN thread_token_usage |-> 0]
    /\ now = 0
    /\ ledger0 = thread_token_usage
    /\ last_touch = [k \in DOMAIN thread_token_usage |-> 0]
    /\ observed = thread_token_usage
    /\ lastOp = NoOp
    /\ nOps = 0
    /\ reqs = NoReqs
    /\ plug = NoPlug
    /\ iso = NoIso
    /\ api = NoApi

\* extract_and_accumulate_tokens(response, thread_id), the response carrying
\* the usage u in the source `kind`.
LAccumulate(thread_id, kind, u) ==
    /\ nOps < MaxOps
    /\ nOps' = nOps + 1
    /\ thread_token_usage' =
          extract_and_accumulate_tokens(thread_token_usage, MkResponse(kind, u), thread_id)
    /\ lastOp' = [op |-> "accumulate", id |-> thread_id,
                  exc |-> IF AccumulateRaises(MkResponse(kind, u), thread_id)
                          THEN "TypeError" ELSE "none",
                  ret |-> AccumulateReturns(thread_token_usage', thread_id),
                  before |-> thread_token_usage, threads |-> EmptyDict,
                  cur |-> ExtractUsage(MkResponse(kind, u))]
    /\ observed' = IF thread_id # "" /\ kind # "none" /\ Recorded(FieldsOf(u)) # ZeroUsage
                   THEN WithAdded(observed, thread_id, Recorded(FieldsOf(u)))
                   ELSE observed
    /\ last_touch' = IF thread_id # "" THEN Stamp(last_touch, thread_id, now) ELSE last_touch
    /\ UNCHANGED <<thread_last_access, now, requestVars>>

\* Responses with more than one usage source.
MultiResponses ==
    {[dump |-> <<U(0, 0, 0)>>, attr |-> NoSource, meta |-> <<U(75, 125, 200)>>],
     [dump |-> NoSource, attr |-> <<U(0, 0, 0)>>, meta |-> <<U(75, 125, 200)>>],
     [dump |-> <<U(100, 50, 150)>>, attr |-> <<U(75, 125, 200)>>, meta |-> <<U(90, 80, 170)>>],
     [dump |-> NoSource, attr |-> <<U(75, 125, 200)>>, meta |-> <<U(90, 80, 170)>>],
     [dump |-> <<U(5, 0, 0)>>, attr |-> NoSource, meta |-> NoSource],
     [dump |-> <<U(5, 0, 0)>>,
      attr |-> <<[total_tokens |-> Tok(3)]>>,
      meta |-> NoSource],
     [dump |-> <<[prompt_tokens |-> Tok(2), completion_tokens |-> Tok(1),
                  total_tokens |-> NoneTok]>>,
      attr |-> <<U(75, 125, 200)>>, meta |-> NoSource],
     [dump |-> <<U(5, 0, 0)>>,
      attr |-> <<[prompt_tokens |-> NoneTok, completion_tokens |-> NoneTok,
                  total_tokens |-> Tok(3)]>>,
      meta |-> NoSource]}

\* extract_and_accumulate_tokens(response, thread_id) for such a response;
\* what the call recorded goes into the sum of the observations.
LAccumulateMulti(thread_id, response) ==
    /\ nOps < MaxOps
    /\ nOps' = nOps + 1
    /\ thread_token_usage' =
          extract_and_accumulate_tokens(thread_token_usage, response, thread_id)
    /\ lastOp' = [op |-> "accumulate_multi", id |-> thread_id,
                  exc |-> IF AccumulateRaises(response, thread_id)
                          THEN "TypeError" ELSE "none",
                  ret |-> AccumulateReturns(thread_token_usage', thread_id),
                  before |-> thread_token_usage, threads |-> EmptyDict,
                  response |-> response]
    /\ observed' = IF Recorded(ExtractUsage(response)) # ZeroUsage
                   THEN WithAdded(observed, thread_id, Recorded(ExtractUsage(response)))
                   ELSE observed
    /\ last_touch' = Stamp(last_touch, thread_id, now)
    /\ UNCHANGED <<thread_last_access, now, requestVars>>

\* get_thread_token_usage(thread_id)
LGetUsage(thread_id) ==
    /\ nOps < MaxOps
    /\ nOps' = nOps + 1
    /\ thread_last_access' = Touch(thread_last_access, thread_id, now)
    /\ lastOp' = [op |-> "get", id |-> thread_id,
                  ret |-> get_thread_token_usage(thread_token_usage, thread_id),
                  before |-> thread_token_usage, threads |-> EmptyDict]
    /\ last_touch' = IF thread_id # "" THEN Stamp(last_touch, thread_id, now) ELSE last_touch
    /\ UNCHANGED <<thread_token_usage, now, observed, requestVars>>

\* reset_thread_tokens(thread_id)
LReset(thread_id) ==
    /\ nOps < MaxOps
    /\ nOps' = nOps + 1
    /\ thread_token_usage' = reset_thread_tokens(thread_token_usage, thread_id)
    /\ lastOp' = [op |-> "reset", id |-> thread_id, ret |-> ZeroUsage,
                  before |-> thread_token_usage, threads |-> EmptyDict]
    /\ observed' = Without(observed, {thread_id})
    /\ last_touch' = IF thread_id # "" THEN Stamp(last_touch, thread_id, now) ELSE last_touch
    /\ UNCHANGED <<thread_last_access, now, requestVars>>

\* The end of a request on thread_id: the post-stream accumulation of the run
\* lookup's result r and the read for the token_usage frame.
LPostStream(thread_id, r) ==
    /\ nOps < MaxOps
    /\ nOps' = nOps + 1
    /\ thread_token_usage' = AccumulateRun(thread_token_usage, thread_id, r)
    /\ lastOp' = [op |-> "post_stream", id |-> thread_id,
                  ret |-> FinalTokenUsage(thread_token_usage', thread_id),
                  before |-> thread_token_usage, threads |-> EmptyDict, run |-> r]
    /\ observed' = IF RecordedRun(r) # ZeroUsage
                   THEN WithAdded(observed, thread_id, RecordedRun(r))
                   ELSE observed
    /\ last_touch' = Stamp(last_touch, thread_id, now)
    /\ UNCHANGED <<thread_last_access, now, requestVars>>

\* GET /shadow-sk/stats: cleanup_old_threads(), then get_all_thread_stats().
LStats ==
    /\ nOps < MaxOps
    /\ nOps' = nOps + 1
    /\ thread_token_usage' = cleanup_usage(thread_token_usage, thread_last_access, now)
    /\ thread_last_access' = cleanup_access(thread_last_access, now)
    /\ lastOp' = [op |-> "stats", id |-> "", ret |-> ZeroUsage,
                  before |-> thread_token_usage,
                  threads |-> get_all_thread_stats(thread_token_usage').threads]
    /\ observed' = Without(observed, DOMAIN thread_token_usage \ DOMAIN thread_token_usage')
    /\ UNCHANGED <<now, last_touch, requestVars>>

\* get_all_thread_stats() called by itself.
LSnapshot ==
    /\ nOps < MaxOps
    /\ nOps' = nOps + 1
    /\ lastOp' = [op |-> "snapshot", id |-> "", ret |-> ZeroUsage,
                  before |-> thread_token_usage, threads |-> EmptyDict,
                  access |-> thread_last_access,
                  stats |-> get_all_thread_stats(thread_token_usage)]
    /\ UNCHANGED <<thread_token_usage, thread_last_access, now, last_touch, observed,
                   requestVars>>

\* time.time() moves on.
LTick(h) ==
    /\ nOps < MaxOps
    /\ nOps' = nOps + 1
    /\ now' = now + h * 3600
    /\ lastOp' = [NoOp EXCEPT !.op = "tick"]
    /\ UNCHANGED <<thread_token_usage, thread_last_access, last_touch, observed, requestVars>>

LNext ==
    \/ \E id \in LIds, k \in SourceKinds, u \in LUsages : LAccumulate(id, k, u)
    \/ \E id \in LIds : LAccumulate(id, "none", U(0, 0, 0))
    \/ \E id \in LIds \ {""}, response \in MultiResponses : LAccumulateMulti(id, response)
    \/ \E id \in LIds : LGetUsage(id)
    \/ \E id \in LIds : LReset(id)
    \/ \E id \in LIds \ {""}, r \in RunsListResults : LPostStream(id, r)
    \/ LStats
    \/ LSnapshot
    \/ \E h \in TickHours : LTick(h)

LedgerSpec == LInit /\ [][LNext]_vars

\* The post-stream block alone, the run lookup also returning runs whose
\* usage object is malformed.
LookupNext ==
    \E id \in LIds \ {""}, r \in RunsListResults \cup MalformedRunsListResults :
        LPostStream(id, r)

LookupSpec == LInit /\ [][LookupNext]_vars

(***************************************************************************)
(* Two requests at once: two stream_processor tasks on one event loop,     *)
(* sharing thread_token_usage.  A step is the code of one task between two *)
(* awaits.                                                                 *)
(***************************************************************************)
Reqs == {1, 2}

\* The ledger a task's accumulation starts from.  Variant: the entry was read
\* before the await of runs.list.
LedgerRead_BeforeAwait(current, seen) == seen

\* No await lies between the read and the write of the post-stream
\* accumulation: it starts from the ledger as it is when the task resumes.
LedgerRead(current, seen) == current

\* thread_token_usage after the post-stream accumulation of a task on tid.
PostStreamWrite(ttu, seen, tid, r) ==
    LET base == LedgerRead(ttu, seen)
        upd  == AccumulateRun(base, tid, r)
    IN IF upd = base
       THEN ttu
       ELSE [k \in DOMAIN ttu \cup {tid} |-> IF k = tid THEN upd[tid] ELSE ttu[k]]

twoFrame == <<threadId, taskVars, queueVars, consVars, thread_last_access, now,
              ledger0, last_touch, observed, lastOp, nOps, plug, iso, api>>

TInit ==
    /\ RequestIdle
    /\ thread_token_usage \in InitLedgers
    /\ thread_last_access = [k \in DOMAIN thread_token_usage |-> 0]
    /\ now = 0
    /\ ledger0 = thread_token_usage
    /\ last_touch = NoTimes /\ observed = EmptyDict /\ lastOp = NoOp /\ nOps = 0
    /\ plug = NoPlug
    /\ iso = NoIso
    /\ api = NoApi
    /\ reqs \in [Reqs -> [threadId : {"", "t1"}, pc : {"created"}, outcome : {"running"},
                          actual_thread_id : {""}, is_new_thread : {FALSE}, nFrags : {0},
                          seen : {EmptyDict}, added : {ZeroUsage}]]

\* get_agent returned the agent; the task enters the loop over invoke_stream.
ReqStart(i) ==
    /\ reqs[i].pc = "created"
    /\ reqs' = [reqs EXCEPT ![i].pc = "invoke_stream",
                            ![i].actual_thread_id = reqs[i].threadId,
                            ![i].is_new_thread = (reqs[i].threadId = "")]
    /\ UNCHANGED <<thread_token_usage, twoFrame>>

\* The loop body for a fragment whose .thread is th.
ReqFragment(i, th) ==
    /\ reqs[i].pc = "invoke_stream"
    /\ reqs[i].nFrags < MaxEvents
    /\ LET f == [thread |-> th, has_content |-> FALSE, content |-> <<>>]
           tid == ThreadIdAfter(f, reqs[i].actual_thread_id)
           reset == ResetDue(reqs[i].is_new_thread, tid)
       IN /\ reqs' = [reqs EXCEPT ![i].actual_thread_id = tid,
                                  ![i].is_new_thread = IF reset THEN FALSE ELSE @,
                                  ![i].nFrags = @ + 1]
          /\ thread_token_usage' =
                IF reset THEN reset_thread_tokens(thread_token_usage, tid)
                ELSE thread_token_usage
    /\ UNCHANGED twoFrame

\* The fragment sequence ends: the task awaits runs.list, or is done when no
\* id is known.
ReqStreamEnd(i) ==
    /\ reqs[i].pc = "invoke_stream"
    /\ reqs' = IF reqs[i].actual_thread_id # ""
               THEN [reqs EXCEPT ![i].pc = "runs_list", ![i].seen = thread_token_usage]
               ELSE [reqs EXCEPT ![i].pc = "done", ![i].outcome = "completed"]
    /\ UNCHANGED <<thread_token_usage, twoFrame>>

\* runs.list returns or raises: the accumulation and the end of the task.
ReqRunsListDone(i, r) ==
    /\ reqs[i].pc = "runs_list"
    /\ thread_token_usage' =
          PostStreamWrite(thread_token_usage, reqs[i].seen, reqs[i].actual_thread_id, r)
    /\ reqs' = [reqs EXCEPT ![i].pc = "done", ![i].outcome = "completed",
                            ![i].added = RecordedRun(r)]
    /\ UNCHANGED twoFrame

\* The task ends early: no agent, an exception of the backend, a cancellation.
ReqAbort(i) ==
    /\ reqs[i].pc \in {"created", "invoke_stream", "runs_list"}
    /\ reqs' = [reqs EXCEPT ![i].pc = "done", ![i].outcome = "aborted"]
    /\ UNCHANGED <<thread_token_usage, twoFrame>>

TNext ==
    \E i \in Reqs :
        \/ ReqStart(i)
        \/ \E th \in Ids \cup {NoThread} : ReqFragment(i, th)
        \/ ReqStreamEnd(i)
        \/ \E r \in RunsListResults : ReqRunsListDone(i, r)
        \/ ReqAbort(i)

TwoSpec == TInit /\ [][TNext]_vars

(***************************************************************************)
(* The retrieval plugin: one call of a kernel function of                  *)
(* ShadowInsightsPlugin, its search client, and the function_result frame  *)
(* the callback builds from what the function returned.                    *)
(***************************************************************************)
PluginFns == {"get_sales_docs", "get_customer_docs", "get_user_docs"}
IndexName(fn) ==
    IF fn = "get_sales_docs" THEN "sales"
    ELSE IF fn = "get_customer_docs" THEN "customer" ELSE "user"

\* The query argument: any Python value; a string is kept by its characters.
Queries ==
    {[t |-> "NoneType", chars |-> <<>>], [t |-> "int", chars |-> <<>>]}
        \cup [t : {"str"}, chars : {<<>>, <<" ">>, <<"\n">>, <<"q">>, <<" ", "q", " ">>}]

\* What a call returns or raises.  A str is kept as the parts it is built
\* from; <<>> is the empty string.
Returned(type, parts) == [kind |-> "return", t |-> type, v |-> parts, exc |-> "none"]
Raised(type, text) == [kind |-> "raise", t |-> "none", v |-> <<text>>, exc |-> type]
NoResult == [kind |-> "none", t |-> "none", v |-> <<>>, exc |-> "none"]

\* Exception classes by their place in Python's hierarchy: the subclasses of
\* ValueError, and the BaseExceptions that no `except Exception` catches.
ValueErrors == {"ValueError", "UnicodeError"}
NotExceptions == {"CancelledError", "KeyboardInterrupt"}

\* What happens inside SearchUser/SearchCustomer.search_hybrid: the embedding
\* call gives a vector, fails with OpenAIError (get_embedding returns None) or
\* raises; the POST raises, answers with another status than 200, with no
\* documents, with a document that lacks a selected key, or with documents;
\* or the task is cancelled while the POST is awaited.
SearchEnvs ==
    [embed : {"vector", "none", "raises"},
     http : {"raises", "status_500", "no_docs", "bad_doc", "docs", "cancelled"}]
NoEnv == [embed |-> "unused", http |-> "unused"]

\* SearchUser.search_hybrid / SearchCustomer.search_hybrid
search_hybrid(env) ==
    IF env.embed = "raises"
    THEN Returned("str", <<"Error performing hybrid search: ", "embedding failed">>)
    ELSE IF env.embed = "none"
    THEN Returned("str", <<"No results found.">>)
    ELSE IF env.http = "cancelled"
    THEN Raised("CancelledError", "")
    ELSE IF env.http = "raises"
    THEN Returned("str", <<"Error performing hybrid search: ", "connection failed">>)
    ELSE IF env.http = "status_500"
    THEN Returned("str", <<"Azure Search error: ", "500">>)
    ELSE IF env.http = "no_docs"
    THEN Returned("str", <<"No results found.">>)
    ELSE IF env.http = "bad_doc"
    THEN Returned("str", <<"Error performing hybrid search: ", "'chunk'">>)
    ELSE Returned("str", <<"doc.pdf", ":  ", "chunk text">>)

\* What search_shadow_client.search_hybrid can do as the sales function sees
\* it: return documents, return an empty string or None, raise an Exception,
\* a ValueError or one of its subclasses, or a BaseException (the CancelledError
\* of a task cancelled during the await, KeyboardInterrupt).
ShadowResults ==
    {Returned("str", <<"sales documents">>), Returned("str", <<>>), Returned("NoneType", <<>>),
     Raised("Exception", "search failed"), Raised("ValueError", "bad value"),
     Raised("UnicodeError", "bad bytes"), Raised("CancelledError", ""),
     Raised("KeyboardInterrupt", "")}

\* `not docs`
Falsy(res) == res.t = "NoneType" \/ (res.t = "str" /\ res.v = <<>>)

\* `if not isinstance(query, str) or not query.strip():`
QueryInvalid(query) == query.t # "str" \/ strip(query.chars) = <<>>
InputError(text) == Returned("str", <<"Input error: ", text>>)

\* Variant: the kernel function has no `except Exception` clause.
PluginReturn_NoCatch(fn, query, res) ==
    IF QueryInvalid(query)
    THEN InputError("The query must be a non-empty string.")
    ELSE IF res.kind = "raise"
    THEN IF res.exc \in ValueErrors THEN InputError(res.v[1]) ELSE res
    ELSE IF Falsy(res)
    THEN Returned("str", <<"No relevant documents found in the ", IndexName(fn), " index.">>)
    ELSE res

\* The body of get_sales_docs / get_customer_docs / get_user_docs, res being
\* what the awaited search_hybrid did (not looked at for an invalid query).
\* `except ValueError` takes ValueError and its subclasses, `except Exception`
\* every other Exception; a BaseException leaves the function.
PluginReturn(fn, query, res) ==
    IF QueryInvalid(query)
    THEN InputError("The query must be a non-empty string.")
    ELSE IF res.kind = "raise"
    THEN IF res.exc \in ValueErrors
         THEN InputError(res.v[1])
         ELSE IF res.exc \in NotExceptions
         THEN res
         ELSE Returned("str", <<"An error occurred while retrieving documents from the ",
                                IndexName(fn), " index: ", res.v[1]>>)
    ELSE IF Falsy(res)
    THEN Returned("str", <<"No relevant documents found in the ", IndexName(fn), " index.">>)
    ELSE res

NoFrame == [event |-> "none", data |-> [type |-> "none"]]
pluginFrame == <<threadId, taskVars, queueVars, consVars, ledgerVars, ledger0, last_touch,
                 observed, lastOp, nOps, reqs, iso, api>>

PInit ==
    /\ RequestIdle
    /\ thread_token_usage = EmptyDict /\ thread_last_access = NoTimes /\ now = 0
    /\ ledger0 = EmptyDict
    /\ last_touch = NoTimes /\ observed = EmptyDict /\ lastOp = NoOp /\ nOps = 0
    /\ reqs = NoReqs /\ iso = NoIso /\ api = NoApi
    /\ plug \in [fn : PluginFns, query : Queries, pc : {"called"}, env : {NoEnv},
                 res : {NoResult}, ret : {NoResult}, frame : {NoFrame}]

\* The function is entered: an invalid query returns at once, a valid one
\* awaits the search client.
PluginEnter ==
    /\ plug.pc = "called"
    /\ plug' = IF QueryInvalid(plug.query)
               THEN [plug EXCEPT !.pc = "returned",
                                 !.ret = PluginReturn(plug.fn, plug.query, NoResult)]
               ELSE [plug EXCEPT !.pc = "searching"]
    /\ UNCHANGED pluginFrame

\* The search of the customer or user index ends.
PluginSearchAzure(env) ==
    /\ plug.pc = "searching" /\ plug.fn # "get_sales_docs"
    /\ plug' = [plug EXCEPT !.pc = "returned", !.env = env, !.res = search_hybrid(env),
                            !.ret = PluginReturn(plug.fn, plug.query, search_hybrid(env))]
    /\ UNCHANGED pluginFrame

\* The search of the sales index ends.
PluginSearchShadow(res) ==
    /\ plug.pc = "searching" /\ plug.fn = "get_sales_docs"
    /\ plug' = [plug EXCEPT !.pc = "returned", !.res = res,
                            !.ret = PluginReturn(plug.fn, plug.query, res)]
    /\ UNCHANGED pluginFrame

\* The backend hands the function's outcome on: a returned value becomes the
\* result of a FunctionResultContent for which the callback builds the frame;
\* an Exception of the function would end the stream with an error frame; a
\* BaseException passes `except Exception` of stream_processor and gives none.
PluginFrame ==
    /\ plug.pc = "returned"
    /\ LET item == [cls |-> "FunctionResultContent", name |-> plug.fn,
                    result |-> [t |-> plug.ret.t, v |-> plug.ret.v]]
       IN plug' = [plug EXCEPT !.pc = "framed",
                               !.frame = IF plug.ret.kind = "return" /\ ~ItemRaises(item)
                                         THEN ItemFrame(item)
                                         ELSE IF plug.ret.exc \in NotExceptions
                                         THEN NoFrame
                                         ELSE ErrorFrame(plug.ret.v[1])]
    /\ UNCHANGED pluginFrame

PNext ==
    \/ PluginEnter
    \/ \E env \in SearchEnvs : PluginSearchAzure(env)
    \/ \E res \in ShadowResults : PluginSearchShadow(res)
    \/ PluginFrame

PluginSpec == PInit /\ [][PNext]_vars

(***************************************************************************)
(* Two event_stream generators at once, each with the queue and the task   *)
(* its call created.  A frame is kept as who put it and its number.        *)
(***************************************************************************)
\* Variant: event_queue is one module-level queue.
QueueOf_Shared(i) == 1

\* event_queue is a local of the call of event_stream: request i's closures
\* (stream_processor, the callback, the consumer loop) use queue i.
QueueOf(i) == i

\* `task` is a local of the call as well.
TaskOf(i) == i

IsoFrame(i, n) == [by |-> i, n |-> n]
IsoNone(i) == [by |-> i, n |-> 0]
IsoPutOn(q, k, item) == [q EXCEPT ![k] = Append(@, item)]

isoFrame == <<threadId, taskVars, queueVars, consVars, ledgerVars, ledger0, last_touch,
              observed, lastOp, nOps, reqs, plug, api>>

IInit ==
    /\ RequestIdle
    /\ thread_token_usage = EmptyDict /\ thread_last_access = NoTimes /\ now = 0
    /\ ledger0 = EmptyDict
    /\ last_touch = NoTimes /\ observed = EmptyDict /\ lastOp = NoOp /\ nOps = 0
    /\ reqs = NoReqs /\ plug = NoPlug /\ api = NoApi
    /\ iso = [q |-> [i \in Reqs |-> <<>>],
              r |-> [i \in Reqs |-> [pc |-> "running", must_cancel |-> FALSE, nPut |-> 0,
                                     cpc |-> "get", delivered |-> <<>>]]]

\* The task or the callback of request i puts a frame.
IsoPut(i) ==
    /\ iso.r[i].pc = "running" /\ ~iso.r[i].must_cancel
    /\ iso.r[i].nPut < MaxEvents
    /\ iso' = [q |-> IsoPutOn(iso.q, QueueOf(i), IsoFrame(i, iso.r[i].nPut + 1)),
               r |-> [iso.r EXCEPT ![i].nPut = @ + 1]]
    /\ UNCHANGED isoFrame

\* The task of request i ends, normally, by an exception or by the pending
\* cancellation: its finally clause puts None.
IsoTaskEnd(i) ==
    /\ iso.r[i].pc = "running"
    /\ iso' = [q |-> IsoPutOn(iso.q, QueueOf(i), IsoNone(i)),
               r |-> [iso.r EXCEPT ![i].pc = "done", ![i].must_cancel = FALSE]]
    /\ UNCHANGED isoFrame

\* The finally clause of event_stream of request i.
IsoTeardown(r, i) ==
    IF r[TaskOf(i)].pc # "done"
    THEN [r EXCEPT ![TaskOf(i)].must_cancel = TRUE, ![i].cpc = "await_task"]
    ELSE [r EXCEPT ![i].cpc = "returned"]

\* The consumer loop of request i takes an item: a frame is yielded, None
\* ends the loop.
IsoGet(i) ==
    /\ iso.r[i].cpc = "get" /\ iso.q[QueueOf(i)] # <<>>
    /\ LET item == Head(iso.q[QueueOf(i)])
           rest == [iso.q EXCEPT ![QueueOf(i)] = Tail(@)]
       IN iso' = IF item.n = 0
                 THEN [q |-> rest, r |-> IsoTeardown(iso.r, i)]
                 ELSE [q |-> rest, r |-> [iso.r EXCEPT ![i].delivered = Append(@, item)]]
    /\ UNCHANGED isoFrame

\* The client of request i goes away while the consumer waits.
IsoLeave(i) ==
    /\ iso.r[i].cpc = "get"
    /\ iso' = [iso EXCEPT !.r = IsoTeardown(iso.r, i)]
    /\ UNCHANGED isoFrame

\* `await task` of request i ends.
IsoJoin(i) ==
    /\ iso.r[i].cpc = "await_task" /\ iso.r[TaskOf(i)].pc = "done"
    /\ iso' = [iso EXCEPT !.r[i].cpc = "returned"]
    /\ UNCHANGED isoFrame

INext ==
    \E i \in Reqs : IsoPut(i) \/ IsoTaskEnd(i) \/ IsoGet(i) \/ IsoLeave(i) \/ IsoJoin(i)

IsoSpec == IInit /\ [][INext]_vars

(***************************************************************************)
(* The direct-yield variant: event_stream of api.py.  Content, thread_info *)
(* and the terminal frame are yielded by the generator itself; only the    *)
(* callback's frames go through a queue, intermediate_queue, which the     *)
(* generator empties at the start of each pass of the loop and after it.   *)
(***************************************************************************)
apiFrame == <<threadId, taskVars, queueVars, consVars, ledgerVars, ledger0, last_touch,
              observed, lastOp, nOps, reqs, plug, iso>>

\* thread_info of api.py: the id of the fragment's thread, no agent name.
ApiThreadInfoFrame(tid) ==
    format_sse_event("thread_info", [type |-> "thread_info", thread_id |-> tid])

\* yield_pending_intermediates() resumed once: the event get_nowait() gives,
\* none on QueueEmpty.
yield_pending_intermediates(queue) == IF queue = <<>> THEN <<>> ELSE <<Head(queue)>>

\* No fragment is being processed.
NoFragment == [thread |-> NoThread, has_content |-> FALSE, content |-> <<>>, usage |-> <<>>]

\* The generator runs the body of the loop for fragment f, from the point
\* `from` on, up to its next yield: a pending callback frame (line 293),
\* thread_info if it was not sent and the fragment has a thread (line 300),
\* the content if it is not blank (line 312); with nothing left to yield it
\* goes back to waiting for the backend.
ApiRunTo(a, f, from) ==
    LET ev == yield_pending_intermediates(a.queue)
    IN IF from = "pending" /\ ev # <<>>
       THEN [a EXCEPT !.out = @ \o ev, !.queue = Tail(@), !.at = "pending"]
       ELSE IF from \in {"pending", "info"} /\ ~a.thread_info_sent /\ f.thread # NoThread
       THEN [a EXCEPT !.out = @ \o <<ApiThreadInfoFrame(f.thread)>>, !.at = "info"]
       ELSE IF f.has_content /\ strip(f.content) # <<>>
       THEN [a EXCEPT !.out = @ \o <<ContentFrame(f.content)>>, !.at = "content"]
       ELSE [a EXCEPT !.at = "backend", !.cur = NoFragment]

\* After the loop, up to the next yield: a remaining callback frame (line
\* 316), else stream_complete (line 319).
ApiDrainEnd(a) ==
    LET ev == yield_pending_intermediates(a.queue)
    IN IF ev # <<>>
       THEN [a EXCEPT !.out = @ \o ev, !.queue = Tail(@), !.at = "pending_end"]
       ELSE [a EXCEPT !.out = @ \o <<CompleteFrame>>, !.at = "end",
                      !.pc = "done", !.outcome = "completed"]

\* event_stream has been called with a request that carries a thread id or
\* none, and has not run yet.  The id goes into the thread handed to the
\* backend (lines 281-282); frags are the fragments received so far.
AInit ==
    /\ RequestIdle
    /\ thread_token_usage = EmptyDict /\ thread_last_access = NoTimes /\ now = 0
    /\ ledger0 = EmptyDict
    /\ last_touch = NoTimes /\ observed = EmptyDict /\ lastOp = NoOp /\ nOps = 0
    /\ reqs = NoReqs /\ plug = NoPlug /\ iso = NoIso
    /\ \E id \in {"", "t1"} :
          api = [pc |-> "created", outcome |-> "running", queue |-> <<>>, put |-> <<>>,
                 out |-> <<>>, thread_info_sent |-> FALSE, nEv |-> 0,
                 at |-> "backend", cur |-> NoFragment, threadId |-> id, frags |-> <<>>]

\* get_agent() gives no agent (the error frame is yielded) or an agent.
ApiStart ==
    /\ api.pc = "created"
    /\ \/ api' = [api EXCEPT !.pc = "done", !.outcome = "agent_failed", !.at = "end",
                              !.out = @ \o AgentFailedFrames]
       \/ api' = [api EXCEPT !.pc = "invoke_stream"]
    /\ UNCHANGED apiFrame

\* The backend, while the generator awaits its next fragment, calls
\* handle_streaming_intermediate_steps with a message whose items all
\* serialize: one frame per item is put on intermediate_queue.
ApiIntermediate(message) ==
    /\ api.pc = "invoke_stream" /\ api.at = "backend" /\ api.nEv < MaxEvents
    /\ FirstRaising(message) > Len(message)
    /\ api' = [api EXCEPT !.queue = @ \o handle_intermediate_message(message),
                          !.put = @ \o handle_intermediate_message(message),
                          !.nEv = @ + 1]
    /\ UNCHANGED apiFrame

\* The callback raises at an item that does not serialize; the frames of the
\* items before it are on the queue, and the except clause yields the error.
ApiIntermediateRaises(message) ==
    /\ api.pc = "invoke_stream" /\ api.at = "backend" /\ api.nEv < MaxEvents
    /\ FirstRaising(message) <= Len(message)
    /\ api' = [api EXCEPT !.queue = @ \o handle_intermediate_message(message),
                          !.put = @ \o handle_intermediate_message(message),
                          !.nEv = @ + 1,
                          !.out = @ \o ExceptFrames(JsonTypeError),
                          !.pc = "done", !.outcome = "callback_raised", !.at = "end"]
    /\ UNCHANGED apiFrame

\* The backend yields a fragment: the generator runs the loop body up to its
\* first yield and hands that one frame to the transport.
ApiFragment(f) ==
    /\ api.pc = "invoke_stream" /\ api.at = "backend" /\ api.nEv < MaxEvents
    /\ api' = ApiRunTo([api EXCEPT !.nEv = @ + 1, !.cur = f, !.frags = Append(@, f)],
                       f, "pending")
    /\ UNCHANGED apiFrame

\* The transport resumes the generator at the yield where it stands; the
\* generator runs to its next yield.  thread_info_sent is assigned when the
\* yield of thread_info is resumed.
ApiResume ==
    /\ api.pc = "invoke_stream" /\ api.at # "backend"
    /\ api' = IF api.at = "pending" THEN ApiRunTo(api, api.cur, "pending")
              ELSE IF api.at = "info"
              THEN ApiRunTo([api EXCEPT !.thread_info_sent = TRUE], api.cur, "content")
              ELSE IF api.at = "content"
              THEN [api EXCEPT !.at = "backend", !.cur = NoFragment]
              ELSE ApiDrainEnd(api)
    /\ UNCHANGED apiFrame

\* The backend raises while the generator awaits the next fragment: the
\* except clause yields the error frame.
ApiBackendRaises(e) ==
    /\ api.pc = "invoke_stream" /\ api.at = "backend"
    /\ api' = [api EXCEPT !.out = @ \o ExceptFrames(e),
                          !.pc = "done", !.outcome = "raised", !.at = "end"]
    /\ UNCHANGED apiFrame

\* The fragment sequence ends: the generator goes on to its next yield, a
\* remaining callback frame or stream_complete.
ApiStreamEnd ==
    /\ api.pc = "invoke_stream" /\ api.at = "backend"
    /\ api' = ApiDrainEnd(api)
    /\ UNCHANGED apiFrame

\* The transport closes or cancels the generator, while the backend is
\* awaited or at a yield: GeneratorExit and CancelledError pass the except
\* clauses, nothing more is yielded.
ApiClosed ==
    /\ api.pc = "invoke_stream"
    /\ api' = [api EXCEPT !.pc = "done", !.outcome = "closed", !.at = "end"]
    /\ UNCHANGED apiFrame

ANext ==
    \/ ApiStart
    \/ \E message \in Messages : ApiIntermediate(message)
    \/ \E message \in Messages : ApiIntermediateRaises(message)
    \/ \E f \in Fragments : ApiFragment(f)
    \/ ApiResume
    \/ \E e \in Exceptions : ApiBackendRaises(e)
    \/ ApiStreamEnd
    \/ ApiClosed

ApiSpec == AInit /\ [][ANext]_vars

\* The two variants of event_stream side by side: a request is served by
\* main.py's event_stream or by api.py's.
VInit == Init \/ AInit
VNext ==
    \/ api = NoApi /\ TaskStart
    \/ api = NoApi /\ AgentFailed
    \/ api = NoApi /\ AgentReady
    \/ \E m \in Messages : api = NoApi /\ Intermediate(m)
    \/ \E m \in Messages : api = NoApi /\ IntermediateRaises(m)
    \/ \E f \in Fragments : api = NoApi /\ Fragment(f)
    \/ \E e \in Exceptions : api = NoApi /\ BackendRaises(e)
    \/ api = NoApi /\ StreamEndKnown
    \/ api = NoApi /\ StreamEndUnknown
    \/ \E r \in RunsListResults : api = NoApi /\ RunsListDone(r)
    \/ api = NoApi /\ TaskCancelled
    \/ api = NoApi /\ ConsumerGet
    \/ api = NoApi /\ ConsumerResume
    \/ api = NoApi /\ ConsumerClose
    \/ api = NoApi /\ ConsumerCancelled
    \/ api = NoApi /\ ConsumerRecancelled
    \/ api = NoApi /\ ConsumerJoin
    \/ ANext
VariantsSpec == VInit /\ [][VNext]_vars

(***************************************************************************)
(* Properties of the stream.                                               *)
(***************************************************************************)
EventsOf(q) == [i \in 1..Len(q) |-> IF IsFrame(q[i]) THEN q[i].event ELSE "None"]
Count(q, ev) == Cardinality({i \in 1..Len(q) : EventsOf(q)[i] = ev})
Has(q, ev) == \E i \in 1..Len(q) : EventsOf(q)[i] = ev
IsPrefix(a, b) == Len(a) <= Len(b) /\ SubSeq(b, 1, Len(a)) = a
RanBy(how) == pc = "done" /\ outcome = how

\* C1: a stream whose background task ran to its end (agent initialisation
\* failure, the fragment sequence ended, or the backend raised) has exactly one
\* terminal frame on its queue, stream_complete or error and never both; no
\* stream ever has more than one.
C1_ExactlyOneTerminal ==
    /\ Count(enqueued, "stream_complete") + Count(enqueued, "error") <= 1
    /\ (pc = "done" /\ outcome # "cancelled")
          => Count(enqueued, "stream_complete") + Count(enqueued, "error") = 1
    /\ RanBy("completed") => Has(enqueued, "stream_complete")
    /\ (RanBy("raised") \/ RanBy("agent_failed")) => Has(enqueued, "error")
C1_Witness ==
    /\ RanBy("raised") /\ Len(fragLog) >= 1
    /\ Has(enqueued, "content") /\ Has(enqueued, "error")

\* C2: once a terminal frame has been put on the queue, the only item ever put
\* after it is the closing None, and no frame is delivered after a terminal frame.
C2_NothingAfterTerminal ==
    /\ \A i, j \in 1..Len(enqueued) :
          (i < j /\ IsTerminal(enqueued[i])) => enqueued[j] = NoneItem
    /\ \A i, j \in 1..Len(delivered) :
          i < j => ~IsTerminal(delivered[i])
C2_Witness ==
    /\ RanBy("completed") /\ cexit = "sentinel"
    /\ Has(enqueued, "token_usage") /\ Has(delivered, "stream_complete")
    /\ enqueued[Len(enqueued)] = NoneItem

\* C3: the frames yielded to the transport are at every moment a prefix of the
\* frames put on the queue, in put order.
C3_DeliveredIsPrefix == IsPrefix(delivered, FramesOf(enqueued))
C3_Witness ==
    /\ Len(delivered) >= 2 /\ delivered[1] # delivered[2]
    /\ Len(FramesOf(enqueued)) > Len(delivered)

\* C4: thread_info is put at most once, and when it is put it precedes every
\* content frame, the token_usage frame and the terminal frame.
C4_ThreadInfoFirst ==
    /\ Count(enqueued, "thread_info") <= 1
    /\ \A i, j \in 1..Len(enqueued) :
          (EventsOf(enqueued)[i] = "thread_info"
             /\ EventsOf(enqueued)[j] \in {"content", "token_usage", "stream_complete", "error"})
          => i < j
C4_Witness ==
    /\ Has(enqueued, "thread_info") /\ Has(enqueued, "content")
    /\ Has(enqueued, "token_usage") /\ Has(enqueued, "stream_complete")
    /\ Len(fragLog) >= 2
FirstIdx(q, ev) == CHOOSE i \in 1..Len(q) : EventsOf(q)[i] = ev /\ \A j \in 1..(i - 1) : EventsOf(q)[j] # ev
HasText(f) == f.has_content /\ strip(f.content) # <<>>
\* the fragment that carried the first content frame
FirstContentFrag == CHOOSE k \in 1..Len(fragLog) : HasText(fragLog[k]) /\ \A j \in 1..(k - 1) : ~HasText(fragLog[j])
\* the conversation id is known once fragment k has been received
IdKnownAt(k) == threadId # "" \/ \E j \in 1..k : fragLog[j].thread # NoThread
InfoBeforeFirstContent ==
    /\ Has(enqueued, "thread_info")
    /\ FirstIdx(enqueued, "thread_info") < FirstIdx(enqueued, "content")

\* C5 as stated: thread_info precedes the first content frame if and only if
\* the conversation id was known by the fragment carrying that content.
C5_InfoIffIdKnown ==
    Has(enqueued, "content") => (InfoBeforeFirstContent <=> IdKnownAt(FirstContentFrag))

\* The same for the frames api.py's event_stream has yielded: the fragment
\* that carried the first content frame, whether a fragment up to the k-th
\* revealed the id, whether thread_info came before the first content.
ApiFirstContentFrag ==
    CHOOSE k \in 1..Len(api.frags) :
        HasText(api.frags[k]) /\ \A j \in 1..(k - 1) : ~HasText(api.frags[j])
ApiRevealedBy(k) == \E j \in 1..k : api.frags[j].thread # NoThread
ApiInfoBeforeFirstContent ==
    /\ Has(api.out, "thread_info")
    /\ FirstIdx(api.out, "thread_info") < FirstIdx(api.out, "content")

\* C5 amended: in main.py's event_stream thread_info precedes the first
\* content frame whether or not the conversation id is known; in api.py's
\* event_stream it precedes the first content frame if and only if a fragment
\* not later than the one carrying that content revealed the id (an id that
\* only the request supplied gives no thread_info there).
C5_InfoFirstPerVariant ==
    /\ Has(enqueued, "content") => InfoBeforeFirstContent
    /\ (api # NoApi /\ Has(api.out, "content")) =>
          (ApiInfoBeforeFirstContent <=> ApiRevealedBy(ApiFirstContentFrag))
\* main.py: no id is known when the first content is put, and thread_info
\* precedes it.
C5_Witness ==
    /\ threadId = "" /\ Len(fragLog) = 2
    /\ fragLog[1].thread = NoThread /\ fragLog[2].thread # NoThread
    /\ Has(enqueued, "content") /\ InfoBeforeFirstContent
    /\ HasText(fragLog[1])

LedgerTotal(ttu, tid) == IF tid \in DOMAIN ttu THEN ttu[tid].total_tokens ELSE 0

\* C6: token_usage is put at most once, only by a task whose fragment sequence
\* ended normally, directly before stream_complete, and exactly when the ledger
\* total of the stream's conversation id is positive at that moment; it then
\* carries that ledger record.
C6_TokenUsage ==
    /\ [](/\ Count(enqueued, "token_usage") <= 1
          /\ Has(enqueued, "token_usage") =>
                /\ outcome = "completed"
                /\ Has(enqueued, "stream_complete")
                /\ FirstIdx(enqueued, "token_usage") + 1 = FirstIdx(enqueued, "stream_complete"))
    /\ [][(outcome = "running" /\ outcome' = "completed") =>
            /\ Has(enqueued', "token_usage")
                  <=> LedgerTotal(thread_token_usage', actual_thread_id') > 0
            /\ Has(enqueued', "token_usage") =>
                  enqueued'[FirstIdx(enqueued', "token_usage")].data =
                      [type |-> "token_usage", thread_id |-> actual_thread_id',
                       token_usage |-> thread_token_usage'[actual_thread_id']]
            /\ ~Has(enqueued, "token_usage")]_vars
C6_Witness ==
    /\ RanBy("completed") /\ Has(enqueued, "token_usage")
    /\ enqueued[FirstIdx(enqueued, "token_usage")].data.token_usage.total_tokens = 9
    /\ Has(delivered, "token_usage")

\* C7: when get_agent returns no agent the queue holds the single error frame
\* and the closing None, and invoke_stream is never called.
C7_AgentFailure ==
    agent = "none" =>
        /\ ~invoked /\ fragLog = <<>> /\ nMsgs = 0
        /\ pc = "done"
        /\ enqueued = <<[event |-> "error",
                         data |-> [type |-> "error", error |-> "Failed to initialize agent"]],
                        NoneItem>>
        /\ IsPrefix(delivered, FramesOf(enqueued))
C7_Witness ==
    /\ agent = "none" /\ cpc = "returned" /\ cexit = "sentinel"
    /\ Len(delivered) = 1 /\ delivered[1].event = "error"

\* C8: when the backend raises, the frames put before stay where they are and
\* are delivered in order to a consumer that keeps draining, the run lookup,
\* token_usage and stream_complete are skipped, and the stream ends with one
\* error frame carrying the exception's message.
C8_BackendRaises ==
    /\ [](outcome = "raised" =>
            /\ pc = "done"
            /\ Count(enqueued, "error") = 1
            /\ ~Has(enqueued, "token_usage") /\ ~Has(enqueued, "stream_complete")
            /\ Len(enqueued) >= 2
            /\ enqueued[Len(enqueued)] = NoneItem
            /\ enqueued[Len(enqueued) - 1] =
                  [event |-> "error", data |-> [type |-> "error", error |-> excMsg]]
            /\ cexit = "sentinel" => delivered = FramesOf(enqueued))
    /\ [][(outcome = "running" /\ outcome' = "raised") =>
            /\ SubSeq(enqueued', 1, Len(enqueued)) = enqueued
            /\ Len(enqueued') = Len(enqueued) + 2
            /\ SubSeq(event_queue', 1, Len(event_queue)) = event_queue
            /\ delivered' = delivered
            /\ thread_token_usage' = thread_token_usage
            /\ excMsg' # ""]_vars
C8_Witness ==
    /\ RanBy("raised") /\ cexit = "sentinel" /\ cpc = "returned"
    /\ Len(delivered) >= 3 /\ Has(delivered, "content")
    /\ delivered[Len(delivered)].data.error = "boom"

\* C9: when event_stream has returned, the background task is done, and from
\* then on it neither runs nor puts anything on the queue.
C9_NoOrphanTask ==
    /\ [](cpc = "returned" => pc = "done")
    /\ [](cpc = "await_task" => (must_cancel \/ pc = "done"))
    /\ [][cpc = "returned" => (enqueued' = enqueued /\ pc' = pc)]_vars
C9_Witness ==
    /\ cpc = "returned" /\ cexit = "closed" /\ outcome = "cancelled"
    /\ Len(delivered) >= 1

\* C10: a consumer that stops draining while the task runs has cancelled it;
\* the cancelled task puts no further frame, eventually ends, and once it has
\* ended nothing is put on the queue any more.
C10_CancelStopsTask ==
    /\ []((cexit \in {"closed", "cancelled"} /\ pc # "done") => must_cancel)
    /\ [][must_cancel => FramesOf(enqueued') = FramesOf(enqueued)]_vars
    /\ (must_cancel ~> (pc = "done" /\ outcome = "cancelled"))
    /\ [][pc = "done" => enqueued' = enqueued]_vars
C10_Witness ==
    /\ cexit = "closed" /\ Len(delivered) = 2
    /\ pc = "done" /\ outcome = "cancelled" /\ cpc = "returned"
    /\ enqueued[Len(enqueued)] = NoneItem
\* C11: a task cancelled because the consumer went away puts no error frame:
\* no error frame is put while a cancellation is pending, and a stream whose
\* task ended cancelled has no error frame put or delivered.
C11_CancelIsNoError ==
    /\ [](outcome = "cancelled" => (~Has(enqueued, "error") /\ ~Has(delivered, "error")))
    /\ [][must_cancel => Count(enqueued', "error") = Count(enqueued, "error")]_vars
C11_Witness ==
    /\ RanBy("cancelled") /\ cexit = "cancelled" /\ cpc = "returned"
    /\ Len(fragLog) >= 1 /\ Len(delivered) >= 1
    /\ enqueued[Len(enqueued)] = NoneItem

\* C12 as stated: no exception leaves event_stream on any exit path.
C12_NothingPropagates == cpc = "returned" => escaped = "none"

\* C12 amended: the teardown raises nothing of its own.  task.cancel() is
\* called only on a task that is not done, a further cancellation changes
\* neither the task nor the queue, the task's CancelledError never leaves
\* event_stream, and the only exception that does is the consumer's own
\* CancelledError, which goes on after the finally clause.
C12_TeardownSilent ==
    /\ [](escaped \in {"none", "CancelledError"})
    /\ [](escaped = "CancelledError" <=> (cpc = "returned" /\ cexit = "cancelled"))
    /\ [](pc = "done" => ~must_cancel)
    /\ [][(must_cancel' /\ ~must_cancel) => (pc # "done" /\ cpc' = "await_task")]_vars
    /\ [][(recancelled' /\ ~recancelled) => (taskVars' = taskVars /\ queueVars' = queueVars)]_vars
C12_Witness ==
    /\ cpc = "returned" /\ cexit = "closed" /\ recancelled
    /\ outcome = "cancelled" /\ escaped = "none"
\* The ledger record of an id (zero when the id has no entry).
LedgerRecord(ttu, tid) == IF tid \in DOMAIN ttu THEN ttu[tid] ELSE ZeroUsage
Plus(a, b) ==
    [input_tokens |-> a.input_tokens + b.input_tokens,
     output_tokens |-> a.output_tokens + b.output_tokens,
     total_tokens |-> a.total_tokens + b.total_tokens]
\* What one request may add to an entry: nothing, or the usage of one run.
OneRunAtMost == {ZeroUsage} \cup {UsageOfRun(u) : u \in RunUsages}

AssignedOnly(X) ==
    /\ threadId = ""
    /\ \E i \in 1..Len(fragLog) : fragLog[i].thread = X
    /\ \A i \in 1..Len(fragLog) : fragLog[i].thread \in {X, NoThread}

\* C15: a request without an id to which the backend assigns an id X that has
\* an entry from before: the entry is gone from the moment X is revealed until
\* the run lookup ends, and after normal completion the record of X, and the
\* token_usage frame, hold the usage of this request's run only.
C15_ResetOnCollision ==
    \A X \in DOMAIN ledger0 :
        AssignedOnly(X) =>
            IF RanBy("completed")
            THEN /\ LedgerRecord(thread_token_usage, X) \in OneRunAtMost
                 /\ Has(enqueued, "token_usage") =>
                       enqueued[FirstIdx(enqueued, "token_usage")].data.token_usage
                           = LedgerRecord(thread_token_usage, X)
                 /\ Has(enqueued, "token_usage")
                       <=> LedgerRecord(thread_token_usage, X).total_tokens > 0
            ELSE X \notin DOMAIN thread_token_usage
C15_Witness ==
    /\ "t1" \in DOMAIN ledger0 /\ ledger0["t1"].total_tokens = 6
    /\ AssignedOnly("t1") /\ RanBy("completed")
    /\ LedgerTotal(thread_token_usage, "t1") = 3
    /\ Has(enqueued, "token_usage")
    /\ enqueued[FirstIdx(enqueued, "token_usage")].data.token_usage.total_tokens = 3

\* C16: in a request without an id the reset happens exactly once.  An entry
\* is deleted only by the fragment step at which the id is first known, and it
\* is the entry of that id; that step always leaves the id without an entry
\* and clears is_new_thread; is_new_thread is never set again, and it is clear
\* before the run lookup, where the only accumulation happens.
C16_ResetOnce ==
    /\ [][(\E k \in DOMAIN thread_token_usage : k \notin DOMAIN thread_token_usage') =>
            /\ threadId = "" /\ is_new_thread /\ ~is_new_thread'
            /\ pc = "invoke_stream" /\ Len(fragLog') = Len(fragLog) + 1
            /\ actual_thread_id = "" /\ actual_thread_id' # ""
            /\ DOMAIN thread_token_usage \ DOMAIN thread_token_usage' = {actual_thread_id'}]_vars
    /\ [][(is_new_thread /\ actual_thread_id' # "") =>
            (~is_new_thread' /\ actual_thread_id' \notin DOMAIN thread_token_usage')]_vars
    /\ [][(pc = "invoke_stream" /\ ~is_new_thread) => ~is_new_thread']_vars
    /\ [](pc = "runs_list" => ~is_new_thread)
C16_Witness ==
    /\ threadId = "" /\ ~is_new_thread /\ Len(fragLog) = 2
    /\ fragLog[1].thread = "t2" /\ fragLog[2].thread = "t1"
    /\ actual_thread_id = "t1" /\ "t1" \in DOMAIN thread_token_usage
(***************************************************************************)
(* Properties of the ledger.                                               *)
(***************************************************************************)
\* C13: with no reset or eviction in between, the record of a non-empty id is
\* the element-wise sum of what the observations with positive total recorded
\* for it, and an accumulate call that returns gives that cumulative record.
\* An observation whose fields are numbers (or missing, read as 0) records its
\* three fields and the call returns; one with a None field makes the call
\* raise TypeError, having recorded at most its input count.
C13_SumOfObservations ==
    /\ \A id \in LIds \ {""} : RecordIn(thread_token_usage, id) = RecordIn(observed, id)
    /\ (lastOp.op = "accumulate" /\ lastOp.id # "" /\ lastOp.exc = "none") =>
          lastOp.ret = RecordIn(observed, lastOp.id)
    /\ (lastOp.op = "accumulate" /\ lastOp.id # "") =>
          LET cur == lastOp.cur
          IN (\A f \in DOMAIN cur : cur[f] # NoneTok) =>
                /\ lastOp.exc = "none"
                /\ cur.total_tokens[1] > 0 =>
                      lastOp.ret = Plus(RecordIn(lastOp.before, lastOp.id),
                                        [f \in DOMAIN cur |-> cur[f][1]])
C13_Witness ==
    /\ ledger0 = EmptyDict /\ nOps = 3
    /\ lastOp.op = "accumulate" /\ lastOp.id = "t1"
    /\ lastOp.before = [k \in {"t1"} |->
          [input_tokens |-> 175, output_tokens |-> 175, total_tokens |-> 350]]
    /\ lastOp.ret = [input_tokens |-> 265, output_tokens |-> 255, total_tokens |-> 520]

\* C17 as stated: after the eviction pass of /stats, an entry whose last read
\* or write is more than 24 hours old is absent from the snapshot and an
\* entry read or written within the window is in it, unchanged.
C17_EvictionByLastAccess ==
    lastOp.op = "stats" =>
        \A id \in DOMAIN lastOp.before :
            IF last_touch[id] < now - MAX_THREAD_AGE_HOURS * 3600
            THEN id \notin DOMAIN lastOp.threads
            ELSE id \in DOMAIN lastOp.threads /\ lastOp.threads[id] = lastOp.before[id]

\* C18 as stated: a call that reads or writes the entry of an id leaves the
\* id's last-access time at the current time, and every id with an entry has
\* a last-access time.
C18_EveryAccessRefreshes ==
    /\ (lastOp.op \in {"get", "accumulate", "post_stream"} /\ lastOp.id # "") =>
          (lastOp.id \in DOMAIN thread_last_access /\ thread_last_access[lastOp.id] = now)
    /\ DOMAIN thread_token_usage \subseteq DOMAIN thread_last_access

\* C19: the counters of an entry are natural numbers, and from one state to
\* the next the counters of an id that keeps its entry do not decrease.
C19_CountersMonotone ==
    /\ [](\A id \in DOMAIN thread_token_usage :
            /\ thread_token_usage[id].input_tokens \in Nat
            /\ thread_token_usage[id].output_tokens \in Nat
            /\ thread_token_usage[id].total_tokens \in Nat)
    /\ [][\A id \in DOMAIN thread_token_usage \cap DOMAIN thread_token_usage' :
            /\ thread_token_usage'[id].input_tokens >= thread_token_usage[id].input_tokens
            /\ thread_token_usage'[id].output_tokens >= thread_token_usage[id].output_tokens
            /\ thread_token_usage'[id].total_tokens >= thread_token_usage[id].total_tokens]_vars
C19_Witness ==
    /\ lastOp.op = "reset" /\ lastOp.id = "t1" /\ nOps = 3
    /\ "t1" \in DOMAIN lastOp.before /\ lastOp.before["t1"].total_tokens = 156
    /\ "t1" \notin DOMAIN thread_token_usage
\* What request i added to the entry of k.
AddedTo(i, k) == IF reqs[i].actual_thread_id = k THEN reqs[i].added ELSE ZeroUsage

\* C20: when two concurrent requests that both came with the same non-empty
\* id have completed, in whatever order their steps were taken, the record of
\* every id is its prior record plus what each of the two added to it.
C20_NoLostUpdate ==
    (\A i \in Reqs : /\ reqs[i].threadId # "" /\ reqs[i].threadId = reqs[1].threadId
                     /\ reqs[i].pc = "done" /\ reqs[i].outcome = "completed") =>
        \A k \in Ids :
            RecordIn(thread_token_usage, k)
                = Plus(RecordIn(ledger0, k), Plus(AddedTo(1, k), AddedTo(2, k)))
C20_Witness ==
    /\ \A i \in Reqs : /\ reqs[i].threadId = "t1" /\ reqs[i].actual_thread_id = "t1"
                       /\ reqs[i].pc = "done" /\ reqs[i].outcome = "completed"
                       /\ reqs[i].added.total_tokens = 3
                       /\ reqs[i].seen = ledger0
    /\ "t1" \in DOMAIN ledger0
    /\ RecordIn(thread_token_usage, "t1").total_tokens = ledger0["t1"].total_tokens + 6
(***************************************************************************)
(* Properties of the frames.                                               *)
(***************************************************************************)
RECURSIVE TextsReceived(_)
\* The texts of the fragments whose content is not empty, in fragment order.
TextsReceived(log) ==
    IF log = <<>> THEN <<>>
    ELSE TextsReceived(SubSeq(log, 1, Len(log) - 1))
            \o (IF log[Len(log)].has_content /\ log[Len(log)].content # <<>>
                THEN <<log[Len(log)].content>> ELSE <<>>)
RECURSIVE ContentsPut(_)
\* The texts of the content frames put on the queue, in put order.
ContentsPut(q) ==
    IF q = <<>> THEN <<>>
    ELSE ContentsPut(SubSeq(q, 1, Len(q) - 1))
            \o (IF IsFrame(q[Len(q)]) /\ q[Len(q)].event = "content"
                THEN <<q[Len(q)].data.content>> ELSE <<>>)

\* C21 as stated: the content frames on the queue carry, in order, exactly the
\* texts of the fragments with non-empty content, whitespace-only text included.
C21_ContentForEveryText == ContentsPut(enqueued) = TextsReceived(fragLog)

\* C22 as stated: building a function_call or function_result frame never
\* raises, whatever value the item holds, and the value in the frame is one
\* json.dumps takes.
C22_SerializeNeverRaises ==
    /\ outcome # "callback_raised"
    /\ \A i \in 1..Len(enqueued) :
          /\ (IsFrame(enqueued[i]) /\ enqueued[i].event = "function_call")
                => json_dumps_ok(enqueued[i].data.arguments)
          /\ (IsFrame(enqueued[i]) /\ enqueued[i].event = "function_result")
                => json_dumps_ok(enqueued[i].data.result)
\* C23 as stated: a retrieval function returns a str whatever the query is and
\* whatever its search client does, and never raises: its outcome reaches the
\* stream as the text of a function_result frame.
C23_PluginReturnsText ==
    /\ plug.pc \in {"returned", "framed"} =>
          (plug.ret.kind = "return" /\ plug.ret.t = "str" /\ plug.ret.v # <<>>)
    /\ plug.pc = "framed" =>
          /\ plug.frame.event = "function_result"
          /\ plug.frame.data.result = [t |-> "str", v |-> plug.ret.v]
    /\ (plug.pc = "returned" /\ plug.res = NoResult) =>
          plug.ret.v = <<"Input error: ", "The query must be a non-empty string.">>

\* C23 amended: a retrieval function returns a non-empty str for every query
\* and for every outcome of its search client that is a value or an Exception,
\* and that text is what the function_result frame carries; only a
\* BaseException that is no Exception (the CancelledError of a cancelled await,
\* KeyboardInterrupt) leaves the function, and it gives no error frame.
C23_TextUnlessBaseException ==
    /\ (plug.pc \in {"returned", "framed"} /\ plug.res.exc \notin NotExceptions) =>
          (plug.ret.kind = "return" /\ plug.ret.t = "str" /\ plug.ret.v # <<>>)
    /\ (plug.pc \in {"returned", "framed"} /\ plug.res.exc \in NotExceptions) =>
          plug.ret = plug.res
    /\ plug.pc = "framed" =>
          IF plug.ret.kind = "return"
          THEN /\ plug.frame.event = "function_result"
               /\ plug.frame.data.result = [t |-> "str", v |-> plug.ret.v]
          ELSE plug.frame = NoFrame
    /\ (plug.pc = "returned" /\ plug.res = NoResult) =>
          plug.ret.v = <<"Input error: ", "The query must be a non-empty string.">>
    /\ (plug.pc = "returned" /\ plug.res.exc \in ValueErrors) =>
          plug.ret.v = <<"Input error: ", plug.res.v[1]>>
C23_Witness ==
    /\ plug.pc = "framed" /\ plug.fn = "get_sales_docs"
    /\ plug.res.kind = "raise" /\ plug.res.exc = "Exception"
    /\ plug.frame.event = "function_result"
    /\ plug.frame.data.result.v[4] = "search failed"

\* The frames request i has put so far, in put order.
IsoPutBy(i) == [n \in 1..iso.r[i].nPut |-> IsoFrame(i, n)]
IsoFramesIn(q) == SelectSeq(q, LAMBDA x : x.n # 0)

\* C24: each of two concurrent requests has its own queue and task.  What a
\* request has delivered and what waits in its queue are the frames its own
\* task put, in order; a step changes the queue and the state of one request
\* only, and a cancellation becomes pending for a task only when the consumer
\* of the same request leaves.
C24_Isolation ==
    /\ [](\A i \in Reqs :
            /\ \A k \in 1..Len(iso.q[i]) : iso.q[i][k].by = i
            /\ iso.r[i].cpc = "get" =>
                  iso.r[i].delivered \o IsoFramesIn(iso.q[i]) = IsoPutBy(i))
    /\ [][\A i, j \in Reqs :
            (i # j /\ (iso'.q[i] # iso.q[i] \/ iso'.r[i] # iso.r[i]))
                => (iso'.q[j] = iso.q[j] /\ iso'.r[j] = iso.r[j])]_vars
    /\ [][\A i \in Reqs :
            (iso'.r[i].must_cancel /\ ~iso.r[i].must_cancel)
                => (iso.r[i].cpc = "get" /\ iso'.r[i].cpc = "await_task")]_vars
C24_Witness ==
    /\ iso.r[1].cpc = "returned" /\ iso.r[1].nPut = 2 /\ Len(iso.r[1].delivered) = 1
    /\ iso.r[2].pc = "running" /\ ~iso.r[2].must_cancel /\ iso.r[2].cpc = "get"
    /\ Len(iso.r[2].delivered) = 1 /\ Len(iso.q[2]) = 1
RECURSIVE CarriedTotal(_)
\* The sum of the totals the fragments received so far report.
CarriedTotal(log) ==
    IF log = <<>> THEN 0
    ELSE CarriedTotal(SubSeq(log, 1, Len(log) - 1))
            + (IF log[Len(log)].usage # <<>> THEN OrZero(log[Len(log)].usage[1].total_tokens)
               ELSE 0)

\* C25 as stated: the usage a fragment reports is in the ledger as soon as the
\* fragment has been processed, so for a request on a given id the ledger
\* holds the prior total plus the totals of the fragments received so far
\* while the stream runs and when it ends by an exception or a cancellation.
C25_RecordedAtFragment ==
    (/\ threadId # "" /\ invoked /\ outcome # "completed"
     /\ \A i \in 1..Len(fragLog) : fragLog[i].thread \in {NoThread, threadId}) =>
        LedgerTotal(thread_token_usage, threadId)
            = LedgerTotal(ledger0, threadId) + CarriedTotal(fragLog)
\* The source the stated policy accepts: the first of the serialized usage,
\* .usage and metadata['usage'] whose total is positive; its three fields.
PositiveTotal(u) == OrZero(Get(u, "total_tokens")) > 0
CountsOf(u) ==
    [input_tokens |-> OrZero(Get(u, "prompt_tokens")),
     output_tokens |-> OrZero(Get(u, "completion_tokens")),
     total_tokens |-> OrZero(Get(u, "total_tokens"))]
AcceptedUsage(response) ==
    IF response.dump # NoSource /\ PositiveTotal(response.dump[1])
    THEN CountsOf(response.dump[1])
    ELSE IF response.attr # NoSource /\ PositiveTotal(response.attr[1])
    THEN CountsOf(response.attr[1])
    ELSE IF response.meta # NoSource /\ PositiveTotal(response.meta[1])
    THEN CountsOf(response.meta[1])
    ELSE ZeroUsage

\* C26 as stated: an accumulate call adds to the entry exactly the three
\* fields of the first source, in the order serialized usage, .usage,
\* metadata, whose total is positive, and nothing when no source has one.
C26_FirstPositiveSourceWins ==
    lastOp.op = "accumulate_multi" =>
        RecordIn(thread_token_usage, lastOp.id)
            = Plus(RecordIn(lastOp.before, lastOp.id), AcceptedUsage(lastOp.response))

\* The event of the frame an item of an intermediate message is to give.
KindOf(item) ==
    IF item.cls = "FunctionCallContent" THEN "function_call"
    ELSE IF item.cls = "FunctionResultContent" THEN "function_result"
    ELSE "intermediate"
KindsOf(message) == [i \in 1..Len(message) |-> KindOf(message[i])]
\* The events of the frames n intermediate messages give, one per item.
RECURSIVE KindSeqs(_)
KindSeqs(n) ==
    IF n = 0 THEN {<<>>}
    ELSE {s \o KindsOf(message) : s \in KindSeqs(n - 1), message \in Messages}
\* The events of the frames the callback has put on the queue, in order.
CallbackKinds(q) ==
    EventsOf(SelectSeq(q, LAMBDA x : IsFrame(x) /\ x.event \in
                {"function_call", "function_result", "intermediate"}))

\* C27 as stated: the callback puts exactly one frame per item, in item order,
\* of the item's kind, and drops no item: the callback frames on the queue are
\* those of the messages handled so far, item by item, and the callback
\* delivers nothing itself.
C27_OneFramePerItem ==
    /\ CallbackKinds(enqueued) \in KindSeqs(nMsgs)
    /\ IsPrefix(delivered, FramesOf(enqueued))

\* The lookup failed: it raised, gave no run, or gave a run whose usage is
\* missing, null or malformed.
LookupFailed(r) ==
    \/ r.kind \in {"raise", "empty"}
    \/ r.usage = <<>>
    \/ \A k \in DOMAIN r.usage[1] : r.usage[1][k] = NoneTok
    \/ \E k \in DOMAIN r.usage[1] : IsBad(r.usage[1][k])

\* C28 as stated: a failed usage lookup is swallowed: the step leaves the
\* ledger as it was, so the closing frames are those of the ledger before the
\* step, and they end with stream_complete and hold no error frame.
C28_FailedLookupSwallowed ==
    (lastOp.op = "post_stream" /\ LookupFailed(lastOp.run)) =>
        /\ thread_token_usage = lastOp.before
        /\ LET frames == FinalFrames(thread_token_usage, lastOp.id)
           IN /\ frames = FinalFrames(lastOp.before, lastOp.id)
              /\ frames[Len(frames)] = CompleteFrame
              /\ ~Has(frames, "error")

\* C29: on every way out of the task (completed, no agent, an exception of
\* the backend or of the callback, cancelled) the closing None is on the queue
\* exactly once and nothing was put after it, and before the task is done it
\* is not there; the consumer never forwards the None, and when it has left
\* the loop by the None it has forwarded every frame before it and has stopped.
C29_SentinelOnceAndLast ==
    /\ Count(enqueued, "None") = (IF pc = "done" THEN 1 ELSE 0)
    /\ pc = "done" => enqueued[Len(enqueued)] = NoneItem
    /\ pc = "done" <=> outcome \in {"completed", "agent_failed", "raised",
                                    "callback_raised", "cancelled"}
    /\ \A i \in 1..Len(delivered) : IsFrame(delivered[i])
    /\ cexit = "sentinel" =>
          /\ cpc = "returned" /\ event_queue = <<>>
          /\ delivered = FramesOf(enqueued)
    /\ (cpc \in {"get", "yield"} /\ pc = "done") => Count(event_queue, "None") = 1

\* A backend exception ended the task and the consumer has left by the None
\* after forwarding the frames before it.
C29_Witness ==
    /\ outcome = "raised" /\ cexit = "sentinel" /\ cpc = "returned"
    /\ Len(delivered) >= 2 /\ Len(enqueued) = Len(delivered) + 1

\* C30: if the consumer keeps draining (it is never closed or cancelled) and
\* the fragment sequence of the backend ends, by its end or by an exception,
\* then eventually event_stream has returned and every frame that was put on
\* the queue has been delivered, in the order it was put.
C30_EverythingDelivered ==
    ([](cexit \in {"none", "sentinel"}) /\ <>(invoked /\ pc \in {"runs_list", "done"}))
        => <>(cpc = "returned" /\ delivered = FramesOf(enqueued) /\ event_queue = <<>>)

\* A stream that ran to its end with fragments: all its frames, thread_info
\* and stream_complete among them, are delivered and event_stream has returned.
C30_Witness ==
    /\ outcome = "completed" /\ cpc = "returned" /\ cexit = "sentinel"
    /\ Len(fragLog) >= 1 /\ Len(delivered) >= 3
    /\ delivered = FramesOf(enqueued)

\* The id known when the first fragment is processed: the one the fragment
\* reveals, else the request's, else the sentinel 'Unknown'.
IdAtFirstFragment ==
    IF fragLog[1].thread # NoThread THEN fragLog[1].thread
    ELSE IF threadId # "" THEN threadId ELSE Unknown

\* C31: the thread_info frame is put in the step that processes the first
\* fragment and in no other step, it carries the id known at that moment or
\* 'Unknown', and as long as no fragment has come there is no thread_info.
C31_ThreadInfoAtFirstFragment ==
    /\ [](Has(enqueued, "thread_info") <=> fragLog # <<>>)
    /\ [](fragLog # <<>> =>
            enqueued[FirstIdx(enqueued, "thread_info")].data.thread_id = IdAtFirstFragment)
    /\ [][(Count(enqueued', "thread_info") # Count(enqueued, "thread_info"))
            <=> (fragLog = <<>> /\ fragLog' # <<>>)]_vars
    /\ [][(fragLog = <<>> /\ fragLog' # <<>>) =>
            Count(enqueued', "thread_info") = 1]_vars

\* A new conversation whose first fragment reveals the id, and a second
\* fragment after it: thread_info carries that id and was put once.
C31_Witness ==
    /\ threadId = "" /\ Len(fragLog) = 2 /\ fragLog[1].thread = "t1"
    /\ ~HasText(fragLog[1])
    /\ Count(enqueued, "thread_info") = 1
    /\ enqueued[FirstIdx(enqueued, "thread_info")].data.thread_id = "t1"

\* C32 as stated: an entry exists only after an observation with a positive
\* total was made for its id: no entry of the ledger has all counters zero,
\* and every entry's id has a positive observed total.
C32_NoZeroEntry ==
    \A k \in DOMAIN thread_token_usage :
        /\ thread_token_usage[k] # ZeroUsage
        /\ thread_token_usage[k].total_tokens > 0

\* The id this request's reset was applied to: the first id a fragment of a
\* new conversation reveals ("" when there was no reset).
ResetId ==
    IF threadId = "" /\ \E j \in 1..Len(fragLog) : fragLog[j].thread # NoThread
    THEN fragLog[CHOOSE j \in 1..Len(fragLog) :
                    /\ fragLog[j].thread # NoThread
                    /\ \A i \in 1..(j - 1) : fragLog[i].thread = NoThread].thread
    ELSE ""
\* The token_usage frame on the queue (there is at most one).
TokenUsageFrame == enqueued[FirstIdx(enqueued, "token_usage")]

\* C33: the token_usage frame names the stream's conversation id and reports
\* that id's ledger record as it is when the frame is put: the record earlier
\* requests left (nothing when this request's reset deleted it) plus the
\* usage of this request's run.
C33_ReportsCumulative ==
    Has(enqueued, "token_usage") =>
        /\ TokenUsageFrame.data.thread_id = actual_thread_id
        /\ TokenUsageFrame.data.token_usage
                = LedgerRecord(thread_token_usage, actual_thread_id)
        /\ \E a \in OneRunAtMost :
              TokenUsageFrame.data.token_usage =
                  Plus(IF ResetId = actual_thread_id THEN ZeroUsage
                       ELSE LedgerRecord(ledger0, actual_thread_id), a)

\* A request on a conversation that earlier requests left at 4/2/6 and whose
\* own run used 2/1/3: the frame reports 6/3/9.
C33_Witness ==
    /\ threadId = "t1" /\ actual_thread_id = "t1"
    /\ LedgerRecord(ledger0, "t1").total_tokens = 6
    /\ Has(enqueued, "token_usage")
    /\ TokenUsageFrame.data.token_usage.total_tokens = 9

\* C34 as stated: after reset_thread_tokens(id) the ledger holds neither a
\* usage record nor a last-access timestamp for id, a read of id gives the
\* zero record, and the entries of the other ids are as before.
C34_ResetDeletesEntirely ==
    lastOp.op = "reset" =>
        /\ lastOp.id \notin DOMAIN thread_token_usage
        /\ lastOp.id \notin DOMAIN thread_last_access
        /\ get_thread_token_usage(thread_token_usage, lastOp.id) = ZeroUsage
        /\ Without(thread_token_usage, {lastOp.id}) = Without(lastOp.before, {lastOp.id})

\* C35: get_all_thread_stats gives the number of ledger entries, the sum of
\* their total_tokens and the records themselves, and leaves the usage map
\* and the last-access map as they were.
C35_StatsReadOnly ==
    lastOp.op = "snapshot" =>
        /\ lastOp.stats.total_threads = Cardinality(DOMAIN thread_token_usage)
        /\ lastOp.stats.total_tokens_across_all_threads =
              RecordIn(thread_token_usage, "t1").total_tokens
                + RecordIn(thread_token_usage, "t2").total_tokens
                + RecordIn(thread_token_usage, "").total_tokens
        /\ lastOp.stats.threads = thread_token_usage
        /\ thread_token_usage = lastOp.before
        /\ thread_last_access = lastOp.access

\* Statistics over two entries, one of them read at an earlier hour.
C35_Witness ==
    /\ lastOp.op = "snapshot" /\ lastOp.stats.total_threads = 2
    /\ lastOp.stats.total_tokens_across_all_threads > 6
    /\ DOMAIN thread_last_access # {}

\* C36: a call of extract_and_accumulate_tokens or of get_thread_token_usage
\* with the empty id returns the zero record and leaves the usage map and the
\* last-access map as they are; no entry is ever made under the empty id.
C36_EmptyIdNoOp ==
    /\ []("" \notin DOMAIN thread_token_usage /\ "" \notin DOMAIN thread_last_access)
    /\ [][(nOps' = nOps + 1 /\ lastOp'.op \in {"accumulate", "get"} /\ lastOp'.id = "") =>
            /\ lastOp'.ret = ZeroUsage
            /\ thread_token_usage' = thread_token_usage
            /\ thread_last_access' = thread_last_access]_vars

\* An accumulate call with the empty id was made on a ledger that holds an
\* entry and a timestamp.
C36_Witness ==
    /\ lastOp.op = "accumulate" /\ lastOp.id = ""
    /\ DOMAIN thread_token_usage # {} /\ DOMAIN thread_last_access # {}
    /\ now > 0

\* a <= b, counter by counter
AtMost(a, b) ==
    /\ a.input_tokens <= b.input_tokens
    /\ a.output_tokens <= b.output_tokens
    /\ a.total_tokens <= b.total_tokens

\* C37: in a request that supplies a conversation id no step deletes or
\* lowers a ledger entry, whatever ids the fragments carry: every entry is
\* still there after the step and none of its counters is smaller.
C37_NoResetWithId ==
    [][threadId # "" =>
          \A k \in DOMAIN thread_token_usage :
              /\ k \in DOMAIN thread_token_usage'
              /\ AtMost(thread_token_usage[k], thread_token_usage'[k])]_vars

\* A request for t2 whose fragment carried t1 has completed: the entry of t1
\* was kept and the usage of the run was added to it.
C37_Witness ==
    /\ threadId = "t2" /\ RanBy("completed")
    /\ Len(fragLog) >= 1 /\ fragLog[1].thread = "t1"
    /\ LedgerTotal(ledger0, "t1") = 6
    /\ LedgerTotal(thread_token_usage, "t1") = 9

\* C38: a request that has not completed, in particular one that ended with
\* an error frame or was cancelled, has added nothing to the ledger: the
\* ledger is what it was before the request, less the entry of the id this
\* request's one reset was applied to.
C38_FailedAddsNothing ==
    outcome # "completed" =>
        thread_token_usage = Without(ledger0, {ResetId})

\* A request on a conversation with a record was cancelled after a fragment
\* that carried usage; no error frame was put.
C38_Witness ==
    /\ RanBy("cancelled") /\ threadId = "t1" /\ ledger0 # EmptyDict
    /\ \E i \in 1..Len(fragLog) : fragLog[i].usage # <<>>
    /\ ~Has(enqueued, "error") /\ cexit \in {"closed", "cancelled"}

\* The callback's frames among the frames yielded to the client.
ApiCallbackOut ==
    SelectSeq(api.out, LAMBDA x : x.event \in
                  {"function_call", "function_result", "intermediate"})

\* C39 as stated: when the direct-yield stream has ended, by the end of the
\* fragment sequence or by an exception of the backend, every frame the
\* callback put on the intermediate queue was yielded exactly once, in
\* order, before the terminal frame, which is the last frame yielded.
C39_IntermediatesBeforeTerminal ==
    (api.pc = "done" /\ api.outcome \in {"completed", "raised"}) =>
        /\ ApiCallbackOut = api.put
        /\ IsTerminal(api.out[Len(api.out)])
        /\ Count(api.out, "stream_complete") + Count(api.out, "error") = 1
====
